---- MODULE Spec2Model ----
(***************************************************************************)
(* The deliberation engine of the LLM council: the resilient provider      *)
(* clients (retry / backoff / fallback), the provider router, the          *)
(* scatter/gather stages (independent opinions, anonymous cross-review),   *)
(* chairman synthesis and the orchestrator that sequences them.            *)
(*                                                                         *)
(* Text is a sequence of tokens (strings).  A JSON document inside a text  *)
(* is one token naming a document of JsonDoc; the words the code looks for *)
(* ("[", "failed", "error") are tokens of their own.                       *)
(***************************************************************************)
EXTENDS Integers, Sequences, FiniteSets, TLC

\* ------------------------------------------------------------------ bounds
\* Largest council (model_list / reviewer_configs) a request carries.
MaxCouncil == 2
\* Largest max_retries a directly constructed client is given.
RetryBound == 2
\* Most requests one ProviderManager is followed through.
MaxRequests == 3
\* Largest backoff_base (seconds) a directly constructed client is given.
MaxBase == 2

\* ------------------------------------------------------- program constants
\* services/openrouter_client.py, services/groq_client.py: MAX_RETRIES
MAX_RETRIES == 1
\* BACKOFF_BASE: float = 2.0 (seconds)
BACKOFF_BASE == 2
\* BACKOFF_JITTER: float = 1.0 (seconds)
BACKOFF_JITTER == 1
\* Temperatures are counted in tenths.
\* schemas.py: temperature: float = Field(0.7, ge=0.0, le=1.0)
REQUEST_TEMPERATURE_DEFAULT == 7
REQUEST_TEMPERATURE_MIN == 0
REQUEST_TEMPERATURE_MAX == 10
\* schemas.py: max_tokens: int = Field(512, ge=64, le=512)
REQUEST_MAX_TOKENS_DEFAULT == 512
REQUEST_MAX_TOKENS_MIN == 64
\* provider_manager.py, council_service.py: temperature: float = 0.7, max_tokens: int = 1024
CHAT_TEMPERATURE_DEFAULT == 7
CHAT_MAX_TOKENS_DEFAULT == 1024
\* orchestrator.py: conduct_reviews(..., temperature=0.3)
STAGE2_TEMPERATURE == 3
\* review_service.py: max_tokens=1024
STAGE2_MAX_TOKENS == 1024
\* chairman_service.py: temperature: float = 0.3, max_tokens=2048
CHAIRMAN_TEMPERATURE == 3
CHAIRMAN_MAX_TOKENS == 2048
\* Durations are counted in ticks of half a second.
TicksPerSecond == 2
\* max(sleep_time, 0.5): the floor, one tick.
MinSleep == 1

VARIABLES
    entry,        \* the operation this behaviour exercises
    env,          \* providers whose API key is set in the environment
    request,      \* the ConsultRequest: council_models, chairman_model
    council,      \* council_models / model_list / reviewer_configs in use
    chairman,     \* chairman_model in use
    pc,           \* position of the operation
    calls,        \* the awaited provider calls of the current gather, by slot
    payload,      \* the user message the current calls were sent
    overtaken,    \* some call of the current gather completed before an earlier slot's
    raw_results,  \* what the last gather returned, by slot
    opinions,     \* Stage-1 result
    reviews,      \* Stage-2 result
    trace,        \* the DeliberationTrace returned
    visited,      \* the stages entered so far, in order
    dispatched,   \* provider calls started so far, per stage
    clients,      \* providers whose client the manager has constructed
    routed,       \* the configs handed to ProviderManager.chat so far, in order
    sessions,     \* per provider, the aiohttp session of the manager's client
    sent,         \* per scatter so far: its stage, temperature and max_tokens
    members,      \* session.members of the CouncilSession query_council returned
    built,        \* per provider: client objects constructed, ClientSessions still open
    db,           \* send_message: the chat row, the transaction and the HTTP status
    peer,         \* a second request running concurrently: its position and its manager's sessions
    raised        \* the exception that left the operation ("" when none)

vars == <<entry, env, request, council, chairman, pc, calls, payload, overtaken,
          raw_results, opinions, reviews, trace, visited, dispatched, clients, routed,
          sessions, sent, members, built, db, peer, raised>>

\* ------------------------------------------------------------------- text
\* str.lower() on the tokens that carry upper-case letters.
LowerTok(t) ==
    CASE t = "Error"      -> "error"
      [] t = "FAILED"     -> "failed"
      [] t = "Groq"       -> "groq"
      [] t = "OpenRouter" -> "openrouter"
      [] t = "FOO"        -> "foo"
      [] OTHER            -> t

Lower(text) == [i \in 1..Len(text) |-> LowerTok(text[i])]

\* word in text
Contains(text, word) == \E i \in 1..Len(text) : text[i] = word

\* The JSON documents an upstream model may answer with.
JNum(n)  == [t |-> "num", n |-> n]
JNull    == [t |-> "null"]
JStr(s)  == [t |-> "str", s |-> s]
JArr(xs) == [t |-> "arr", items |-> xs]
JObj(f)  == [t |-> "obj", f |-> f]

JsonDocs == {"J:valid", "J:empty", "J:num", "J:null", "J:str", "J:arr",
             "J:missing", "J:range", "J:wrongtype"}

JsonDoc(tok) ==
    CASE tok = "J:valid" ->
           JObj([rankings |-> JArr(<<JObj([response_id |-> JNum(1),
                                            score_total |-> JNum(28)])>>),
                 detailed_scores |-> JArr(<<JObj([response_id |-> JNum(1),
                                                   accuracy |-> JNum(9),
                                                   insight |-> JNum(9),
                                                   logic |-> JNum(10),
                                                   critique |-> JStr("sound")])>>)])
      [] tok = "J:empty" ->
           JObj([rankings |-> JArr(<<>>), detailed_scores |-> JArr(<<>>)])
      [] tok = "J:num"  -> JNum(5)
      [] tok = "J:null" -> JNull
      [] tok = "J:str"  -> JStr("fine")
      [] tok = "J:arr"  -> JArr(<<>>)
      [] tok = "J:missing" ->
           JObj([rankings |-> JArr(<<JObj([response_id |-> JNum(1)])>>),
                 detailed_scores |-> JArr(<<>>)])
      [] tok = "J:range" ->
           JObj([rankings |-> JArr(<<>>),
                 detailed_scores |-> JArr(<<JObj([response_id |-> JNum(1),
                                                   accuracy |-> JNum(11),
                                                   insight |-> JNum(9),
                                                   logic |-> JNum(9),
                                                   critique |-> JStr("sound")])>>)])
      [] tok = "J:wrongtype" ->
           JObj([rankings |-> JNum(5), detailed_scores |-> JArr(<<>>)])

\* text.startswith("["): a bracket token, or a JSON array written bare.
StartsWithBracket(text) ==
    /\ Len(text) > 0
    /\ \/ text[1] = "["
       \/ text[1] \in JsonDocs /\ JsonDoc(text[1]).t = "arr"

\* ---------------------------------------------------------------- results
\* What an awaited call leaves: a str, None, or a raised exception.
StrResult(text) == [tag |-> "str", text |-> text, exc |-> ""]
NoneResult      == [tag |-> "none", text |-> <<>>, exc |-> ""]
ExcResult(e)    == [tag |-> "exc", text |-> <<>>, exc |-> e]
Pending         == [tag |-> "pending", text |-> <<>>, exc |-> ""]

\* ------------------------------------------------------ provider clients
\* Mutant of FallbackResponse: a template without the {model} field.
FallbackResponseUnnamed(provider, model, retries) ==
    <<"[", "model", "failed", "to respond after", ToString(retries), "retries", "]">>

\* FALLBACK_RESPONSE_TEMPLATE.format(model=..., retries=...) of each client.
FallbackResponse(provider, model, retries) ==
    IF provider = "openrouter"
    THEN <<"[", model, "failed", "to respond after", ToString(retries), "retries", "]">>
    ELSE <<"[", "Groq model", model, "failed", "after", ToString(retries), "retries", "]">>

\* One upstream answer to one POST.
Outcome(k, content, status) == [k |-> k, content |-> content, status |-> status]

\* The failures of one attempt: connection error, timeout, HTTP status error,
\* a payload without choices[0].message.content, any other exception.
\* "server_timeout" is aiohttp.ServerTimeoutError (read timeout), "timeout"
\* asyncio.TimeoutError (connect timeout); "content_type" is a 200 answer
\* whose body is not JSON, for which response.json() raises
\* aiohttp.ContentTypeError, a ClientResponseError carrying status 200.
FailureOutcomes ==
    {Outcome("conn", <<>>, 0), Outcome("server_timeout", <<>>, 0),
     Outcome("timeout", <<>>, 0),
     Outcome("http", <<>>, 429), Outcome("http", <<>>, 400),
     Outcome("http", <<>>, 404), Outcome("http", <<>>, 499),
     Outcome("http", <<>>, 500), Outcome("content_type", <<>>, 200),
     Outcome("malformed", <<>>, 200), Outcome("other", <<>>, 0)}

\* A 200 answer whose choices[0].message.content is the string content.
OkOutcome(content) == Outcome("ok", content, 200)
\* A 200 answer whose choices[0].message.content is null.
NullOutcome == Outcome("null", <<>>, 200)

\* A call of client.chat: provider names the client class.
NewCall(provider, model, max_retries, backoff_base) ==
    [provider |-> provider, model |-> model, max_retries |-> max_retries,
     backoff_base |-> backoff_base, sleep_time |-> 0,
     attempt |-> IF max_retries >= 1 THEN 1 ELSE 0, last_error |-> <<"unknown error">>,
     st |-> IF max_retries >= 1 THEN "posting" ELSE "done",
     result |-> IF max_retries >= 1 THEN Pending
                ELSE StrResult(FallbackResponse(provider, model, max_retries))]

\* A call the router answered inline, without a client.
InlineCall(model, text) ==
    [provider |-> "none", model |-> model, max_retries |-> 0,
     backoff_base |-> 0, sleep_time |-> 0,
     attempt |-> 0, last_error |-> <<>>, st |-> "done", result |-> StrResult(text)]

\* Mutant of NonRetryable: every 4xx status aborts, 429 included.
NonRetryableAll4xx(status) == 400 <= status /\ status < 500

\* Mutant of NonRetryable: no status aborts the loop.
NonRetryableNone(status) == FALSE

\* Mutant of NonRetryable: every error status but 429 aborts, 5xx included.
NonRetryableFrom400(status) == status # 429 /\ 400 <= status

\* exc.status != 429 and 400 <= exc.status < 500
NonRetryable(status) == status # 429 /\ 400 <= status /\ status < 500

\* The call returns with `result`.
Returned(call, result) ==
    [call EXCEPT !.st = "done", !.result = result]

\* The loop is left (exhausted or by break): the fallback string is returned
\* and last_error is what the closing log line reports.
ReturnFallback(call, err) ==
    Returned([call EXCEPT !.last_error = err],
             StrResult(FallbackResponse(call.provider, call.model, call.max_retries)))

RECURSIVE Pow(_, _)
Pow(b, n) == IF n = 0 THEN 1 ELSE b * Pow(b, n - 1)

\* random.uniform(-BACKOFF_JITTER, BACKOFF_JITTER), in ticks.
JitterValues == (0 - BACKOFF_JITTER * TicksPerSecond)..(BACKOFF_JITTER * TicksPerSecond)

Max(a, b) == IF a >= b THEN a ELSE b

\* Mutant of SleepTime: the jittered duration without the floor.
SleepTimeUnfloored(base, attempt, jitter) ==
    TicksPerSecond * Pow(base, attempt) + jitter

\* max(backoff_base ** attempt + jitter, 0.5), in ticks.
SleepTime(base, attempt, jitter) ==
    Max(TicksPerSecond * Pow(base, attempt) + jitter, MinSleep)

\* Mutant of AfterRetryable: the attempts left are not looked at.
AfterRetryableUnbounded(call, err, jitter) ==
    [call EXCEPT !.st = "sleeping", !.last_error = err,
                 !.sleep_time = SleepTime(call.backoff_base, call.attempt, jitter)]

\* Mutant of AfterRetryable: a retryable failure ends the call at once.
AfterRetryableGiveUp(call, err, jitter) == ReturnFallback(call, err)

\* After a retryable failure: back off if attempts remain, else the loop ends.
AfterRetryable(call, err, jitter) ==
    IF call.attempt < call.max_retries
    THEN [call EXCEPT !.st = "sleeping", !.last_error = err,
                      !.sleep_time = SleepTime(call.backoff_base, call.attempt, jitter)]
    ELSE ReturnFallback(call, err)

\* The name last_error gets for what the POST met.
ErrorOf(o) ==
    IF o.k \in {"http", "content_type"} THEN <<"HTTP", o.status>> ELSE <<o.k>>

\* Mutant of ChatAttempt: a success after earlier failures is taken for the
\* exhausted loop.
ChatAttemptForgetsSuccess(call, o, jitter) ==
    CASE o.k = "ok"   -> IF call.attempt > 1
                         THEN ReturnFallback(call, call.last_error)
                         ELSE Returned(call, StrResult(o.content))
      [] o.k = "null" -> Returned(call, NoneResult)
      [] o.k \in {"conn", "server_timeout", "timeout"} ->
           AfterRetryable(call, ErrorOf(o), jitter)
      [] o.k \in {"http", "content_type"} ->
           IF NonRetryable(o.status) THEN ReturnFallback(call, ErrorOf(o))
           ELSE AfterRetryable(call, ErrorOf(o), jitter)
      [] OTHER -> ReturnFallback(call, ErrorOf(o))

\* One iteration of chat's retry loop, o being what the POST met and jitter
\* the random draw of the backoff.
ChatAttempt(call, o, jitter) ==
    CASE o.k = "ok"   -> Returned(call, StrResult(o.content))
      [] o.k = "null" -> Returned(call, NoneResult)
      [] o.k \in {"conn", "server_timeout", "timeout"} ->
           AfterRetryable(call, ErrorOf(o), jitter)
      [] o.k \in {"http", "content_type"} ->
           IF NonRetryable(o.status) THEN ReturnFallback(call, ErrorOf(o))
           ELSE AfterRetryable(call, ErrorOf(o), jitter)
      [] OTHER -> ReturnFallback(call, ErrorOf(o))

\* The backoff sleep ends and the next iteration posts.
ChatWake(call) ==
    [call EXCEPT !.st = "posting", !.attempt = call.attempt + 1, !.sleep_time = 0]

\* ----------------------------------------------------------- model configs
Cfg(provider, model) == [provider |-> provider, model |-> model]

\* The (provider, model) pairs a request may name: one per provider, the
\* second with the provider written in mixed case, the third unknown.
ModelConfigs ==
    {Cfg("openrouter", "z-ai/glm-4.5-air:free"),
     Cfg("Groq", "llama-3.1-8b-instant"),
     Cfg("foo", "acme/m3")}

DEFAULT_COUNCIL_MODELS ==
    <<Cfg("openrouter", "arcee-ai/trinity-large-preview:free"),
      Cfg("openrouter", "z-ai/glm-4.5-air:free"),
      Cfg("openrouter", "arcee-ai/trinity-mini:free"),
      Cfg("openrouter", "arcee-ai/trinity-mini:free")>>

DEFAULT_CHAIRMAN_MODEL == Cfg("openrouter", "arcee-ai/trinity-large-preview:free")

\* config.model.split("/")[-1].split(":")[0]
ShortName(model) ==
    CASE model = "z-ai/glm-4.5-air:free"               -> "glm-4.5-air"
      [] model = "llama-3.1-8b-instant"                -> "llama-3.1-8b-instant"
      [] model = "acme/m3"                             -> "m3"
      [] model = "arcee-ai/trinity-large-preview:free" -> "trinity-large-preview"
      [] model = "arcee-ai/trinity-mini:free"          -> "trinity-mini"
      [] OTHER                                         -> model

\* -------------------------------------------------------- provider manager
KnownProviders == {"openrouter", "groq"}

NotConfigured(provider) ==
    IF provider = "openrouter"
    THEN <<"[", "Error", ":", "OPENROUTER_API_KEY", "is not configured on this deployment", "]">>
    ELSE <<"[", "Error", ":", "GROQ_API_KEY", "is not configured on this deployment", "]">>

UnknownProvider(provider) ==
    <<"[", "Error", ":", "Unknown provider", "'", provider, "'", "]">>

\* Mutant of HasClient: the clients are built together, which needs every key.
HasClientEager(provider, cl, keys) == KnownProviders \subseteq keys

\* The lazy accessor: the client already constructed, or a new one when the
\* provider's key is set; otherwise None.
HasClient(provider, cl, keys) == provider \in cl \/ provider \in keys

\* ProviderManager.chat up to its first suspension: the call it awaits (or
\* the inline answer) and the clients constructed afterwards.
Route(config, cl, keys) ==
    LET provider == LowerTok(config.provider) IN
    IF provider \in KnownProviders
    THEN IF HasClient(provider, cl, keys)
         THEN [call |-> NewCall(provider, config.model, MAX_RETRIES, BACKOFF_BASE),
               clients |-> cl \cup {provider}]
         ELSE [call |-> InlineCall(config.model, NotConfigured(provider)),
               clients |-> cl]
    ELSE [call |-> InlineCall(config.model, UnknownProvider(provider)),
          clients |-> cl]

\* _get_session: the session each posting call's client holds afterwards, a
\* missing or closed one being replaced by a new open one.
SessionsAfter(cs, ss) ==
    [p \in KnownProviders |->
        IF \E i \in 1..Len(cs) : cs[i].provider = p /\ cs[i].st = "posting"
        THEN "open" ELSE ss[p]]

\* OpenRouterClient.close / GroqClient.close on a session.
ClientClose(session) == IF session = "open" THEN "closed" ELSE session

\* Mutant of CloseManager: close() is called on both attributes, constructed
\* or not.
CloseManagerUnguarded(cl, ss) ==
    [sessions |-> [p \in KnownProviders |-> ClientClose(ss[p])],
     exc      |-> IF cl = KnownProviders THEN "" ELSE "AttributeError"]

\* ProviderManager.close: the constructed clients are closed, gathered with
\* return_exceptions=True.
CloseManager(cl, ss) ==
    [sessions |-> [p \in KnownProviders |-> IF p \in cl THEN ClientClose(ss[p]) ELSE ss[p]],
     exc      |-> ""]

\* Mutant of Constructs: the accessor builds a client at every access.
ConstructsEveryCall(provider, cl, keys) == provider \in keys

\* The accessor's "if self._x_client is None: ... self._x_client = XClient()":
\* a client object is constructed when none is held and the key is set.
Constructs(provider, cl, keys) == provider \notin cl /\ provider \in keys

\* _get_session's "if self._session is None or self._session.closed":
\* a ClientSession object is created.
CreatesSession(session) == session \in {"none", "closed"}

NoBuilt == [clients |-> [p \in KnownProviders |-> 0], live |-> [p \in KnownProviders |-> 0]]

\* The objects counted while the coroutines of one scatter start, in slot
\* order: client objects constructed and ClientSession objects opened.
RECURSIVE BuiltFrom(_, _, _, _, _, _)
BuiltFrom(configs, i, cl, keys, ss, b) ==
    IF i > Len(configs) THEN b
    ELSE LET p  == LowerTok(configs[i].provider)
             r  == Route(configs[i], cl, keys)
             posting == r.call.st = "posting"
             b1 == IF p \in KnownProviders /\ Constructs(p, cl, keys)
                   THEN [b EXCEPT !.clients[p] = @ + 1] ELSE b
             b2 == IF posting /\ CreatesSession(ss[p])
                   THEN [b1 EXCEPT !.live[p] = @ + 1] ELSE b1
             ss2 == IF posting THEN [ss EXCEPT ![p] = "open"] ELSE ss
         IN BuiltFrom(configs, i + 1, r.clients, keys, ss2, b2)

\* session.close() of every constructed client leaves one open object less.
BuiltAfterClose(cl, ss, b) ==
    [b EXCEPT !.live = [p \in KnownProviders |->
                          IF p \in cl /\ ss[p] = "open" THEN b.live[p] - 1 ELSE b.live[p]]]

\* Mutant of get_manager: one module-level ProviderManager serves every request.
get_manager_shared(r) == 1

\* get_manager: "manager = ProviderManager()" at every request; the
\* manager object of request r.
get_manager(r) == r

\* A ProviderManager object: its clients and their sessions.
NewManager == [clients |-> {}, sessions |-> [p \in KnownProviders |-> "none"]]

\* The manager after routing one chat to provider p, whose key is set.
ManagerAfterChat(m, p) ==
    [clients |-> m.clients \cup {p}, sessions |-> [m.sessions EXCEPT ![p] = "open"]]

\* The manager after ProviderManager.close.
ManagerAfterClose(m) ==
    [clients |-> m.clients, sessions |-> CloseManager(m.clients, m.sessions).sessions]

\* coroutines = [provider_manager.chat(config=config, ...) for config in ...]
\* handed to asyncio.gather: every call starts, in slot order, before any
\* of them resumes.
RECURSIVE ScatterFrom(_, _, _, _, _)
ScatterFrom(configs, i, cl, keys, acc) ==
    IF i > Len(configs) THEN [calls |-> acc, clients |-> cl]
    ELSE LET r == Route(configs[i], cl, keys)
         IN ScatterFrom(configs, i + 1, r.clients, keys, Append(acc, r.call))

Scatter(configs, cl, keys) == ScatterFrom(configs, 1, cl, keys, <<>>)

\* Mutant of GatherResults: gather without return_exceptions, the first
\* exception standing for the whole result.
GatherFailFast(cs) ==
    IF \E i \in 1..Len(cs) : cs[i].result.tag = "exc"
    THEN LET i == CHOOSE i \in 1..Len(cs) : cs[i].result.tag = "exc"
         IN [j \in 1..Len(cs) |-> cs[i].result]
    ELSE [j \in 1..Len(cs) |-> cs[j].result]

\* asyncio.gather(*coroutines, return_exceptions=True): one entry per slot,
\* in slot order, a raised exception being that slot's entry.
GatherResults(cs) == [i \in 1..Len(cs) |-> cs[i].result]

\* Mutant of AllDone: the gather returns with the first completed call.
AnyDone(cs) == \E i \in 1..Len(cs) : cs[i].st = "done"

AllDone(cs) == \A i \in 1..Len(cs) : cs[i].st = "done"

\* ----------------------------------------------------------------- Stage 1
\* result.startswith("[") and "failed" in result.lower()
Stage1Failed(text) == StartsWithBracket(text) /\ Contains(Lower(text), "failed")

\* Mutant of Stage1ExcText: the text without its brackets.
Stage1ExcTextUnbracketed(model) == <<model, "failed", "to generate an opinion">>

\* f"[{config.model} failed to generate an opinion]"
Stage1ExcText(model) == <<"[", model, "failed", "to generate an opinion", "]">>

\* Mutant of Opinion: enumerate without start=1.
OpinionZeroBased(config, result, i) ==
    [model_id    |-> config.model,
     provider    |-> config.provider,
     short_name  |-> ShortName(config.model),
     response    |-> IF result.tag = "exc"
                     THEN StrResult(<<"[", config.model, "failed", "to generate an opinion", "]">>)
                     ELSE result,
     succeeded   |-> IF result.tag = "exc" THEN FALSE
                     ELSE ~(result.tag = "str" /\ StartsWithBracket(result.text)
                            /\ Contains(Lower(result.text), "failed")),
     response_id |-> i - 1]

\* The body of generate_opinions' loop for slot i.  response keeps the
\* result's tag: Stage1Opinion accepts only a str there.
Opinion(config, result, i) ==
    [model_id    |-> config.model,
     provider    |-> config.provider,
     short_name  |-> ShortName(config.model),
     response    |-> IF result.tag = "exc" THEN StrResult(Stage1ExcText(config.model))
                     ELSE result,
     succeeded   |-> IF result.tag = "exc" THEN FALSE
                     ELSE ~(result.tag = "str" /\ Stage1Failed(result.text)),
     response_id |-> i]

\* ----------------------------------------------------- council_orchestrator
FALLBACK_MARKER(model) ==
    <<"[", model, "encountered an unexpected orchestration", "error", "]">>

\* Mutant of _is_fallback: the unparenthesised expression, in which "error"
\* alone suffices.
IsFallbackUnparenthesised(text) ==
    \/ StartsWithBracket(text) /\ Contains(Lower(text), "failed")
    \/ Contains(Lower(text), "error")

\* text.startswith("[") and ("failed" in lower or "error" in lower)
_is_fallback(text) ==
    /\ StartsWithBracket(text)
    /\ \/ Contains(Lower(text), "failed")
       \/ Contains(Lower(text), "error")

\* The body of query_council's loop for one model: the CouncilMemberResult,
\* or the AttributeError of None.lower().
CouncilMemberResult(model, result) ==
    CASE result.tag = "exc" ->
           [exc |-> "", model |-> model, response |-> FALLBACK_MARKER(model),
            succeeded |-> FALSE]
      [] result.tag = "str" ->
           [exc |-> "", model |-> model, response |-> result.text,
            succeeded |-> ~_is_fallback(result.text)]
      [] OTHER ->
           [exc |-> "AttributeError", model |-> model, response |-> <<>>,
            succeeded |-> FALSE]

\* query_council after the gather: the session's members, or the exception
\* the first None result raises.
BuildMembers(model_list, raw) ==
    LET ms == [i \in 1..Len(model_list) |-> CouncilMemberResult(model_list[i], raw[i])]
    IN IF \A i \in 1..Len(ms) : ms[i].exc = ""
       THEN [exc |-> "", members |-> ms]
       ELSE [exc |-> "AttributeError", members |-> <<>>]

\* Stage1Opinion(response=...) validates response: str.
OpinionValid(op) == op.response.tag = "str"

\* generate_opinions after the gather: the Opinions, or the exception the
\* first invalid Stage1Opinion raises.
BuildOpinions(configs, raw) ==
    LET ops == [i \in 1..Len(configs) |-> Opinion(configs[i], raw[i], i)]
    IN IF \A i \in 1..Len(ops) : OpinionValid(ops[i])
       THEN [exc |-> "", opinions |-> ops]
       ELSE [exc |-> "ValidationError", opinions |-> <<>>]

\* -------------------------------------------------------------- anonymizer
RECURSIVE JoinParts(_, _)
JoinParts(parts, sep) ==
    IF Len(parts) = 0 THEN <<>>
    ELSE IF Len(parts) = 1 THEN parts[1]
    ELSE parts[1] \o <<sep>> \o JoinParts(Tail(parts), sep)

\* Mutant of AnonymizedPart: a failed Opinion gets no section.
AnonymizedPartSkipFailed(op) ==
    IF op.succeeded
    THEN <<"### Response #", ToString(op.response_id), "\n">> \o op.response.text \o <<"\n">>
    ELSE <<>>

\* f"### Response #{op.response_id}\n{op.response}\n"
AnonymizedPart(op) ==
    <<"### Response #", ToString(op.response_id), "\n">> \o op.response.text \o <<"\n">>

anonymize_opinions(ops) ==
    [text    |-> JoinParts([i \in 1..Len(ops) |-> AnonymizedPart(ops[i])], "\n---\n"),
     mapping |-> [id \in {ops[i].response_id : i \in 1..Len(ops)} |->
                    (CHOOSE m \in {ops[i].model_id : i \in 1..Len(ops)} :
                        \E i \in 1..Len(ops) :
                           /\ ops[i].response_id = id
                           /\ ops[i].model_id = m
                           /\ \A j \in (i+1)..Len(ops) : ops[j].response_id # id)]]

\* ----------------------------------------------------------------- Stage 2
\* re.sub(<opening fence (with or without json) | closing fence>, '', result.strip()):
\* FENCE and FENCE_JSON are the three-backtick fence tokens.
StripFence(text) ==
    LET a == IF Len(text) > 0 /\ text[1] \in {"FENCE_JSON", "FENCE"} THEN Tail(text) ELSE text
    IN IF Len(a) > 0 /\ a[Len(a)] = "FENCE" THEN SubSeq(a, 1, Len(a) - 1) ELSE a

\* json.loads: the document, or JSONDecodeError for anything else.
JsonLoads(text) ==
    IF Len(text) = 1 /\ text[1] \in JsonDocs
    THEN [exc |-> "", data |-> JsonDoc(text[1])]
    ELSE [exc |-> "JSONDecodeError", data |-> JNull]

\* data.get(key, []) on a dict.
DictGet(data, key) == IF key \in DOMAIN data.f THEN data.f[key] ELSE JArr(<<>>)

IsInt(f, key) == key \in DOMAIN f /\ f[key].t = "num"
IsStr(f, key) == key \in DOMAIN f /\ f[key].t = "str"
\* Mutant of IsScore: an int field without its bounds.
IsScoreUnbounded(f, key) == IsInt(f, key)

\* Field(ge=0, le=10)
IsScore(f, key) == IsInt(f, key) /\ f[key].n >= 0 /\ f[key].n <= 10

\* RankingItem(**r): "" or the exception raised.
RankingItemExc(r) ==
    IF r.t # "obj" THEN "TypeError"
    ELSE IF IsInt(r.f, "response_id") /\ IsInt(r.f, "score_total") THEN ""
    ELSE "ValidationError"

RankingItem(r) ==
    [response_id |-> r.f.response_id.n, score_total |-> r.f.score_total.n]

\* DetailedScore(**s): "" or the exception raised.
DetailedScoreExc(s) ==
    IF s.t # "obj" THEN "TypeError"
    ELSE IF /\ IsInt(s.f, "response_id")
            /\ IsScore(s.f, "accuracy") /\ IsScore(s.f, "insight") /\ IsScore(s.f, "logic")
            /\ IsStr(s.f, "critique")
         THEN ""
    ELSE "ValidationError"

DetailedScore(s) ==
    [response_id |-> s.f.response_id.n, accuracy |-> s.f.accuracy.n,
     insight |-> s.f.insight.n, logic |-> s.f.logic.n, critique |-> s.f.critique.s]

\* for x in src: the items iterated, or TypeError for a non-iterable.
\* Iterating a dict or a str yields strings.
IterItems(src) ==
    CASE src.t = "arr" -> [exc |-> "", items |-> src.items]
      [] src.t = "obj" -> [exc |-> "",
                           items |-> IF DOMAIN src.f = {} THEN <<>> ELSE <<JStr("key")>>]
      [] src.t = "str" -> [exc |-> "",
                           items |-> IF src.s = "" THEN <<>> ELSE <<JStr("c")>>]
      [] OTHER -> [exc |-> "TypeError", items |-> <<>>]

\* The exception of the first item that raises, "" when none does.
FirstExc(excs) ==
    IF \A i \in 1..Len(excs) : excs[i] = "" THEN ""
    ELSE excs[CHOOSE i \in 1..Len(excs) :
                 excs[i] # "" /\ \A j \in 1..(i-1) : excs[j] = ""]

\* The try-block of conduct_reviews for one reviewer's result.
ParseReview(result) ==
    IF result.tag # "str" THEN [exc |-> "AttributeError", rankings |-> <<>>, scores |-> <<>>]
    ELSE
    LET loaded == JsonLoads(StripFence(result.text))
        data   == loaded.data
        none   == [exc |-> "", rankings |-> <<>>, scores |-> <<>>]
    IN  IF loaded.exc # "" THEN [none EXCEPT !.exc = loaded.exc]
        ELSE IF data.t # "obj" THEN [none EXCEPT !.exc = "AttributeError"]
        ELSE
        LET rs  == IterItems(DictGet(data, "rankings"))
            rex == IF rs.exc # "" THEN rs.exc
                   ELSE FirstExc([i \in 1..Len(rs.items) |-> RankingItemExc(rs.items[i])])
        IN  IF rex # "" THEN [none EXCEPT !.exc = rex]
            ELSE
            LET ss  == IterItems(DictGet(data, "detailed_scores"))
                sex == IF ss.exc # "" THEN ss.exc
                       ELSE FirstExc([i \in 1..Len(ss.items) |-> DetailedScoreExc(ss.items[i])])
            IN  IF sex # "" THEN [none EXCEPT !.exc = sex]
                ELSE [exc      |-> "",
                      rankings |-> [i \in 1..Len(rs.items) |-> RankingItem(rs.items[i])],
                      scores   |-> [i \in 1..Len(ss.items) |-> DetailedScore(ss.items[i])]]

\* except (json.JSONDecodeError, KeyError, TypeError, ValueError);
\* pydantic's ValidationError is a ValueError.
ReviewCaught == {"JSONDecodeError", "KeyError", "TypeError", "ValueError", "ValidationError"}

FailedReview(config) ==
    [reviewer_model_id |-> config.model, reviewer_provider |-> config.provider,
     rankings |-> <<>>, detailed_scores |-> <<>>, succeeded |-> FALSE]

\* isinstance(result, Exception) or (isinstance(result, str) and result.startswith("["))
ReviewerFailed(result) ==
    result.tag = "exc" \/ (result.tag = "str" /\ StartsWithBracket(result.text))

\* The body of conduct_reviews' loop for one reviewer: the Review appended,
\* or the exception that leaves the loop.
Review(config, result) ==
    IF ReviewerFailed(result) THEN [exc |-> "", review |-> FailedReview(config)]
    ELSE LET p == ParseReview(result)
         IN IF p.exc = ""
            THEN [exc |-> "",
                  review |-> [reviewer_model_id |-> config.model,
                              reviewer_provider |-> config.provider,
                              rankings |-> p.rankings, detailed_scores |-> p.scores,
                              succeeded |-> TRUE]]
            ELSE IF p.exc \in ReviewCaught
            THEN [exc |-> "", review |-> FailedReview(config)]
            ELSE [exc |-> p.exc, review |-> FailedReview(config)]

\* conduct_reviews after the gather: the Reviews, or the exception of the
\* first reviewer whose parsing raises past the except clause.
BuildReviews(configs, raw) ==
    LET rs == [i \in 1..Len(configs) |-> Review(configs[i], raw[i])]
    IN [exc     |-> FirstExc([i \in 1..Len(rs) |-> rs[i].exc]),
        reviews |-> IF \A i \in 1..Len(rs) : rs[i].exc = ""
                    THEN [i \in 1..Len(rs) |-> rs[i].review] ELSE <<>>]

\* ----------------------------------------------------------------- Stage 3
ChairmanExcText(model) ==
    <<"[", "Chairman", model, "failed", "to synthesize the council's deliberation.", "]">>

\* synthesize_deliberation's try/except around the chairman call: the
\* verdict returned (whatever the call returned, or the fallback text).
Synthesize(config, result) ==
    IF result.tag = "exc" THEN StrResult(ChairmanExcText(config.model)) ELSE result

\* DeliberationTrace(verdict=...) validates verdict: str.
TraceValid(v) == v.tag = "str"

\* Mutant of FormattedOpinions: the comprehension without if op.succeeded.
RECURSIVE FormattedOpinionsAll(_)
FormattedOpinionsAll(ops) ==
    IF Len(ops) = 0 THEN <<>>
    ELSE LET op   == ops[1]
             rest == FormattedOpinionsAll(Tail(ops))
             part == <<"--- RESPONSE #", ToString(op.response_id), "---\n">>
                     \o op.response.text \o <<"\n">>
         IN IF rest = <<>> THEN part ELSE part \o <<"\n">> \o rest

\* f"--- RESPONSE #{op.response_id} ---\n{op.response}\n" for op in opinions if op.succeeded
RECURSIVE FormattedOpinions(_)
FormattedOpinions(ops) ==
    IF Len(ops) = 0 THEN <<>>
    ELSE LET op   == ops[1]
             rest == FormattedOpinions(Tail(ops))
             part == <<"--- RESPONSE #", ToString(op.response_id), "---\n">>
                     \o op.response.text \o <<"\n">>
         IN IF ~op.succeeded THEN rest
            ELSE IF rest = <<>> THEN part ELSE part \o <<"\n">> \o rest

RECURSIVE ScoreLines(_)
ScoreLines(scores) ==
    IF Len(scores) = 0 THEN <<>>
    ELSE <<"- Assessment of Response #", ToString(scores[1].response_id),
           "Accuracy=", ToString(scores[1].accuracy),
           "Insight=", ToString(scores[1].insight),
           "Logic=", ToString(scores[1].logic),
           "Critique:", scores[1].critique>> \o ScoreLines(Tail(scores))

\* The rev_text of every Review that succeeded.
RECURSIVE FormattedReviews(_)
FormattedReviews(revs) ==
    IF Len(revs) = 0 THEN <<>>
    ELSE IF ~revs[1].succeeded THEN FormattedReviews(Tail(revs))
    ELSE <<<<"Reviewer Model (Anonymized):">> \o ScoreLines(revs[1].detailed_scores)>>
         \o FormattedReviews(Tail(revs))

chairman_payload(ops, revs) ==
    <<"ORIGINAL QUERY:", "PROMPT", "COUNCIL OPINIONS:">> \o FormattedOpinions(ops)
    \o <<"PEER REVIEWS:">> \o JoinParts(FormattedReviews(revs), "\n---\n")

\* review_prompt of conduct_reviews
review_prompt(ops) ==
    <<"Original User Query:", "PROMPT", "Council Responses to Review:">>
    \o anonymize_opinions(ops).text

\* ------------------------------------------------------------ orchestrator
\* Mutant of AnySucceeded: all() in place of any().
AllSucceeded(ops) == \A i \in 1..Len(ops) : ops[i].succeeded

\* any(op.succeeded for op in opinions)
AnySucceeded(ops) == \E i \in 1..Len(ops) : ops[i].succeeded

NoConfig == Cfg("", "")

\* Mutant of BuildTrace: council_size counts the Opinions that succeeded.
BuildTraceCountsSucceeded(req, ops, revs, verdict, council_models, chairman_model) ==
    [original_prompt |-> req.prompt,
     stage1_opinions |-> ops,
     stage2_reviews  |-> revs,
     verdict         |-> verdict,
     council_size    |-> Cardinality({i \in 1..Len(ops) : ops[i].succeeded}),
     chairman_model  |-> chairman_model.model]

\* trace = DeliberationTrace(...), meta's timings left out.
BuildTrace(req, ops, revs, verdict, council_models, chairman_model) ==
    [original_prompt |-> req.prompt,
     stage1_opinions |-> ops,
     stage2_reviews  |-> revs,
     verdict         |-> verdict,
     council_size    |-> Len(council_models),
     chairman_model  |-> chairman_model.model]
NoTrace  == [original_prompt |-> "", stage1_opinions |-> <<>>, stage2_reviews |-> <<>>,
             verdict |-> <<>>, council_size |-> 0, chairman_model |-> ""]

\* An Optional field: None, or the value that was given.
Unset    == <<>>
Given(x) == <<x>>

\* request.council_models or DEFAULT_COUNCIL_MODELS: None and the empty
\* list are both falsy.
ResolveCouncil(req) ==
    IF req.council_models = Unset \/ req.council_models[1] = <<>>
    THEN DEFAULT_COUNCIL_MODELS
    ELSE req.council_models[1]

\* request.chairman_model or DEFAULT_CHAIRMAN_MODEL
ResolveChairman(req) ==
    IF req.chairman_model = NoConfig THEN DEFAULT_CHAIRMAN_MODEL ELSE req.chairman_model

\* ------------------------------------------------------------------ inputs
\* Answers an upstream model gives to a Stage-1 prompt.
Stage1Menu ==
    {<<"answer">>,
     <<"handle", "error", "cases">>,
     <<"[", "Error", "]", "is what the log shows">>,
     <<"[", "FAILED", "]", "is the test status">>,
     <<"[", "1", "]", "cites the source">>}

\* Answers an upstream model gives to a Stage-2 prompt.
Stage2Menu ==
    {<<"J:valid">>, <<"J:empty">>,
     <<"FENCE_JSON", "J:empty", "FENCE">>, <<"FENCE", "J:valid", "FENCE">>,
     <<"FENCE_JSON", "J:arr", "FENCE">>,
     <<"J:num">>, <<"J:null">>, <<"J:str">>, <<"J:arr">>,
     <<"J:missing">>, <<"J:range">>, <<"J:wrongtype">>,
     <<"Response 1 is the best">>}

\* The answers considered at position `p` of operation `e`.
Menu(e, p) ==
    CASE e \in {"chat", "manager"} -> {<<"answer">>}
      [] e \in {"generate_opinions", "query_council"} -> Stage1Menu
      [] e = "conduct_reviews"   -> Stage2Menu
      [] p = "STAGE1"            -> {<<"answer">>}
      [] p = "STAGE2"            -> {<<"J:valid">>, <<"J:num">>}
      [] OTHER                   -> {<<"verdict">>}

\* The failures considered in operation `e`: every kind where a single call
\* is followed through its retries, one kind inside the stages, where the
\* router's clients make MAX_RETRIES attempts and every failure ends alike.
FailuresAt(e) ==
    IF e \in {"chat", "manager"} THEN FailureOutcomes
    ELSE {Outcome("timeout", <<>>, 0)}

\* What one POST can meet.
Outcomes(e, p) == {OkOutcome(c) : c \in Menu(e, p)} \cup {NullOutcome} \cup FailuresAt(e)

\* The configs handed to a ProviderManager that is followed on its own: the
\* two providers, and an unknown one written in lower and in upper case.
ManagerConfigs ==
    {Cfg("openrouter", "z-ai/glm-4.5-air:free"),
     Cfg("Groq", "llama-3.1-8b-instant"),
     Cfg("foo", "acme/m3"),
     Cfg("FOO", "acme/m3")}

Councils == UNION {[1..n -> ModelConfigs] : n \in 1..MaxCouncil}

\* Opinions handed to conduct_reviews when it is called on its own: what
\* Stage 1 yields for a council whose second member timed out.
SampleOpinions ==
    BuildOpinions(<<Cfg("openrouter", "z-ai/glm-4.5-air:free"),
                    Cfg("Groq", "llama-3.1-8b-instant")>>,
                  <<StrResult(<<"answer">>),
                    StrResult(FallbackResponse("groq", "llama-3.1-8b-instant",
                                               MAX_RETRIES))>>).opinions

NoRequest == [prompt |-> "PROMPT", council_models |-> Unset, chairman_model |-> NoConfig,
              temperature |-> REQUEST_TEMPERATURE_DEFAULT,
              max_tokens |-> REQUEST_MAX_TOKENS_DEFAULT]
NoDispatch == [s1 |-> 0, s2 |-> 0, s3 |-> 0]

\* The chat row and the AsyncSession of one send_message request: the
\* committed title and messages, what the open transaction holds, and the
\* HTTP status answered (0 while none).
Db(owned, title) ==
    [owned |-> owned, title |-> title, messages |-> <<>>,
     new_title |-> "", added |-> <<>>, status |-> 0]
NoDb   == Db(FALSE, "")
NoPeer == [st |-> "absent", manager |-> NewManager]

\* Message(chat_id=..., role=..., content=..., deliberation_trace=...)
Message(role, content, deliberation_trace) ==
    [role |-> role, content |-> content, deliberation_trace |-> deliberation_trace]

InitCommon ==
    /\ payload = <<>> /\ overtaken = FALSE /\ raw_results = <<>>
    /\ reviews = <<>> /\ trace = NoTrace
    /\ dispatched = NoDispatch /\ clients = {} /\ routed = <<>> /\ raised = ""
    /\ sessions = [p \in KnownProviders |-> "none"]
    /\ sent = <<>> /\ members = <<>> /\ built = NoBuilt

\* client.chat on a client constructed directly with max_retries = mr.
InitChat ==
    /\ entry = "chat" /\ env = {} /\ request = NoRequest
    /\ council = <<>> /\ chairman = NoConfig
    /\ pc = "CHAT" /\ visited = <<>> /\ opinions = <<>>
    /\ \E p \in KnownProviders, c \in ModelConfigs, mr \in 0..RetryBound, b \in 0..MaxBase :
          calls = <<NewCall(p, c.model, mr, b)>>
    /\ db = NoDb /\ peer = NoPeer
    /\ InitCommon

InitOpinions ==
    /\ entry = "generate_opinions" /\ env \in SUBSET KnownProviders
    /\ request = NoRequest /\ council \in Councils /\ chairman = NoConfig
    /\ pc = "START" /\ visited = <<>> /\ opinions = <<>> /\ calls = <<>>
    /\ db = NoDb /\ peer = NoPeer
    /\ InitCommon

InitReviews ==
    /\ entry = "conduct_reviews" /\ env \in SUBSET KnownProviders
    /\ request = NoRequest /\ council \in Councils /\ chairman = NoConfig
    /\ pc = "START" /\ visited = <<>> /\ opinions = SampleOpinions /\ calls = <<>>
    /\ db = NoDb /\ peer = NoPeer
    /\ InitCommon

\* The requests handed to run_deliberation: the lowest temperature is
\* tried with one-member councils, an empty council list with the default
\* chairman.
RunRequests ==
    {r \in [prompt : {"PROMPT"},
            council_models : {Unset} \cup {Given(c) : c \in Councils \cup {<<>>}},
            chairman_model : {Cfg("Groq", "llama-3.1-8b-instant"), NoConfig},
            temperature : {REQUEST_TEMPERATURE_MIN, REQUEST_TEMPERATURE_DEFAULT},
            max_tokens : {REQUEST_MAX_TOKENS_DEFAULT}] :
        /\ r.temperature # REQUEST_TEMPERATURE_DEFAULT =>
              (r.council_models # Unset /\ Len(r.council_models[1]) = 1)
        /\ r.council_models = Given(<<>>) => r.chairman_model = NoConfig}

InitRun ==
    /\ entry = "run_deliberation" /\ env \in SUBSET KnownProviders
    /\ request \in RunRequests
    /\ council = <<>> /\ chairman = NoConfig
    /\ pc = "START" /\ visited = <<"START">> /\ opinions = <<>> /\ calls = <<>>
    /\ db = NoDb /\ peer = NoPeer
    /\ InitCommon

\* A ProviderManager just constructed, before any request.
InitManager ==
    /\ entry = "manager" /\ env \in SUBSET KnownProviders
    /\ request = NoRequest /\ council = <<>> /\ chairman = NoConfig
    /\ pc = "IDLE" /\ visited = <<>> /\ opinions = <<>> /\ calls = <<>>
    /\ db = NoDb /\ peer = NoPeer
    /\ InitCommon

\* The model IDs handed to query_council.
ModelLists ==
    UNION {[1..n -> {c.model : c \in ModelConfigs}] : n \in 0..MaxCouncil}

\* query_council is called without a client: council holds model_list.
InitQuery ==
    /\ entry = "query_council" /\ env \in SUBSET KnownProviders
    /\ request = NoRequest /\ council \in ModelLists /\ chairman = NoConfig
    /\ pc = "START" /\ visited = <<>> /\ opinions = <<>> /\ calls = <<>>
    /\ db = NoDb /\ peer = NoPeer
    /\ InitCommon

\* The requests posted to send_message: a one-member council.
SendRequests ==
    {r \in RunRequests :
        /\ r.council_models = Given(<<Cfg("openrouter", "z-ai/glm-4.5-air:free")>>)
        /\ r.temperature = REQUEST_TEMPERATURE_DEFAULT}

\* POST /chats/{chat_id}/message arrives, a second request being about to
\* run concurrently with its own manager.
InitSend ==
    /\ entry = "send_message" /\ env \in SUBSET KnownProviders
    /\ request \in SendRequests
    /\ council = <<>> /\ chairman = NoConfig
    /\ pc = "RECEIVED" /\ visited = <<"START">> /\ opinions = <<>> /\ calls = <<>>
    /\ db \in {Db(o, t) : o \in BOOLEAN, t \in {"New Conversation", "Budget review"}}
    /\ peer = [st |-> "waiting", manager |-> NewManager]
    /\ InitCommon

Init == InitChat \/ InitOpinions \/ InitReviews \/ InitRun \/ InitManager \/ InitQuery
           \/ InitSend

\* ----------------------------------------------------------------- actions
Count(stg, n) ==
    CASE stg = "STAGE1" -> [dispatched EXCEPT !.s1 = @ + n]
      [] stg = "STAGE2" -> [dispatched EXCEPT !.s2 = @ + n]
      [] stg = "STAGE3" -> [dispatched EXCEPT !.s3 = @ + n]
      [] OTHER          -> dispatched

\* A stage's calls are created and handed to the gather.
Dispatch(stg, configs, msg, temperature, max_tokens) ==
    LET s == Scatter(configs, clients, env)
    IN /\ calls' = s.calls
       /\ clients' = s.clients
       /\ routed' = routed \o configs
       /\ sessions' = SessionsAfter(s.calls, sessions)
       /\ built' = BuiltFrom(configs, 1, clients, env, sessions, built)
       /\ sent' = Append(sent, [stage |-> stg, calls |-> Len(configs),
                                temperature |-> temperature, max_tokens |-> max_tokens])
       /\ payload' = msg
       /\ overtaken' = FALSE
       /\ dispatched' = Count(stg, Len(configs))
       /\ pc' = stg

\* generate_opinions is called: Stage 1 scatters.
BeginOpinions ==
    /\ entry = "generate_opinions" /\ pc = "START"
    /\ Dispatch("STAGE1", council, <<"PROMPT">>,
                CHAT_TEMPERATURE_DEFAULT, CHAT_MAX_TOKENS_DEFAULT)
    /\ UNCHANGED <<members, db, peer, entry, env, request, council, chairman, raw_results, opinions,
                   reviews, trace, visited, raised>>

\* conduct_reviews is called: the opinions are anonymized, Stage 2 scatters.
BeginReviews ==
    /\ entry = "conduct_reviews" /\ pc = "START"
    /\ Dispatch("STAGE2", council, review_prompt(opinions),
                STAGE2_TEMPERATURE, STAGE2_MAX_TOKENS)
    /\ UNCHANGED <<members, db, peer, entry, env, request, council, chairman, raw_results, opinions,
                   reviews, trace, visited, raised>>

\* run_deliberation is called: the models are resolved, Stage 1 scatters.
BeginRun ==
    /\ entry \in {"run_deliberation", "send_message"} /\ pc = "START"
    /\ council' = ResolveCouncil(request)
    /\ chairman' = ResolveChairman(request)
    /\ Dispatch("STAGE1", council', <<request.prompt>>,
                request.temperature, request.max_tokens)
    /\ visited' = Append(visited, "STAGE1")
    /\ UNCHANGED <<members, db, peer, entry, env, request, raw_results, opinions, reviews, trace, raised>>

\* ProviderManager.chat is called with one config.
ManagerChat ==
    /\ entry = "manager" /\ pc \in {"IDLE", "CLOSED"} /\ Len(routed) < MaxRequests
    /\ \E c \in ManagerConfigs : Dispatch("ROUTED", <<c>>, <<"PROMPT">>,
                                           CHAT_TEMPERATURE_DEFAULT, CHAT_MAX_TOKENS_DEFAULT)
    /\ UNCHANGED <<members, db, peer, entry, env, request, council, chairman, raw_results, opinions,
                   reviews, trace, visited, raised>>

InGather == pc \in {"CHAT", "STAGE1", "STAGE2", "STAGE3", "ROUTED", "QUERY"}

Completed(i, call) ==
    /\ calls' = [calls EXCEPT ![i] = call]
    /\ overtaken' = (overtaken \/ (call.st = "done" /\ \E j \in 1..(i-1) : calls[j].st # "done"))
    /\ UNCHANGED <<members, db, peer, entry, env, request, council, chairman, pc, payload, raw_results,
                   opinions, reviews, trace, visited, dispatched, clients, routed, sessions, built, sent, raised>>

\* The POST of slot i's current attempt resolves.
CallAttempt(i) ==
    /\ InGather /\ i \in 1..Len(calls) /\ calls[i].st = "posting"
    /\ \E o \in Outcomes(entry, pc), j \in JitterValues :
          Completed(i, ChatAttempt(calls[i], o, j))

\* The backoff sleep of slot i ends.
CallWake(i) ==
    /\ InGather /\ i \in 1..Len(calls) /\ calls[i].st = "sleeping"
    /\ Completed(i, ChatWake(calls[i]))

\* The awaited call of slot i raises past the client and the router.
CallRaises(i) ==
    /\ \/ entry \in {"generate_opinions", "conduct_reviews", "query_council"}
       \/ entry \in {"run_deliberation", "send_message"} /\ pc = "STAGE3"
    /\ InGather /\ i \in 1..Len(calls) /\ calls[i].st = "posting"
    /\ Completed(i, Returned(calls[i], ExcResult("RuntimeError")))

\* client.chat returns to its caller.
ChatReturn ==
    /\ pc = "CHAT" /\ AllDone(calls)
    /\ pc' = "DONE"
    /\ raw_results' = GatherResults(calls)
    /\ UNCHANGED <<members, db, peer, entry, env, request, council, chairman, calls, payload, overtaken,
                   opinions, reviews, trace, visited, dispatched, clients, routed, sessions, built, sent, raised>>

\* ProviderManager.chat returns to its caller.
ManagerReturn ==
    /\ pc = "ROUTED" /\ AllDone(calls)
    /\ pc' = "IDLE"
    /\ raw_results' = GatherResults(calls)
    /\ UNCHANGED <<members, db, peer, entry, env, request, council, chairman, calls, payload, overtaken,
                   opinions, reviews, trace, visited, dispatched, clients, routed, sessions, built, sent, raised>>

\* ProviderManager.close is called between requests.
ManagerClose ==
    /\ entry = "manager" /\ pc \in {"IDLE", "CLOSED"}
    /\ LET r == CloseManager(clients, sessions)
       IN /\ sessions' = r.sessions
          /\ built' = BuiltAfterClose(clients, sessions, built)
          /\ raised' = r.exc
          /\ pc' = IF r.exc = "" THEN "CLOSED" ELSE "RAISED"
    /\ UNCHANGED <<members, db, peer, entry, env, request, council, chairman, calls, payload, overtaken,
                   raw_results, opinions, reviews, trace, visited, dispatched, clients,
                   routed, sent>>

Raise(e) ==
    /\ pc' = "RAISED" /\ raised' = e
    /\ UNCHANGED <<calls, payload, overtaken, dispatched, clients, routed, sessions, built, sent>>

\* Stage 3 starts: the single chairman call.
DispatchChairman(ops, revs) ==
    Dispatch("STAGE3", <<chairman>>, chairman_payload(ops, revs),
             CHAIRMAN_TEMPERATURE, CHAIRMAN_MAX_TOKENS)

\* The Stage-1 gather returns and generate_opinions builds its Opinions.
Stage1Return ==
    /\ pc = "STAGE1" /\ AllDone(calls)
    /\ raw_results' = GatherResults(calls)
    /\ LET b == BuildOpinions(council, raw_results')
       IN IF b.exc # ""
          THEN /\ Raise(b.exc)
               /\ UNCHANGED <<opinions, reviews, visited>>
          ELSE /\ opinions' = b.opinions
               /\ raised' = raised
               /\ IF entry = "generate_opinions"
                  THEN /\ pc' = "DONE"
                       /\ UNCHANGED <<calls, payload, overtaken, dispatched, clients, routed, sessions, built, sent,
                                      reviews, visited>>
                  ELSE IF AnySucceeded(b.opinions)
                  THEN /\ Dispatch("STAGE2", council, review_prompt(b.opinions),
                                   STAGE2_TEMPERATURE, STAGE2_MAX_TOKENS)
                       /\ visited' = Append(visited, "STAGE2")
                       /\ reviews' = reviews
                  ELSE /\ reviews' = <<>>
                       /\ DispatchChairman(b.opinions, <<>>)
                       /\ visited' = visited \o <<"SKIPPED", "STAGE3">>
    /\ UNCHANGED <<members, db, peer, entry, env, request, council, chairman, trace>>

\* The Stage-2 gather returns and conduct_reviews builds its Reviews.
Stage2Return ==
    /\ pc = "STAGE2" /\ AllDone(calls)
    /\ raw_results' = GatherResults(calls)
    /\ LET b == BuildReviews(council, raw_results')
       IN IF b.exc # ""
          THEN /\ Raise(b.exc)
               /\ UNCHANGED <<reviews, visited>>
          ELSE /\ reviews' = b.reviews
               /\ raised' = raised
               /\ IF entry = "conduct_reviews"
                  THEN /\ pc' = "DONE"
                       /\ UNCHANGED <<calls, payload, overtaken, dispatched, clients, routed, sessions, built, sent, visited>>
                  ELSE /\ DispatchChairman(opinions, b.reviews)
                       /\ visited' = Append(visited, "STAGE3")
    /\ UNCHANGED <<members, db, peer, entry, env, request, council, chairman, opinions, trace>>

\* The chairman call returns; run_deliberation assembles the trace.
Stage3Return ==
    /\ pc = "STAGE3" /\ AllDone(calls)
    /\ raw_results' = GatherResults(calls)
    /\ LET v == Synthesize(chairman, raw_results'[1])
       IN IF TraceValid(v)
          THEN /\ trace' = BuildTrace(request, opinions, reviews, v.text, council, chairman)
               /\ pc' = "DONE" /\ raised' = raised
               /\ visited' = Append(visited, "DONE")
               /\ UNCHANGED <<calls, payload, overtaken, dispatched, clients, routed, sessions, built, sent>>
          ELSE /\ Raise("ValidationError")
               /\ UNCHANGED <<trace, visited>>
    /\ UNCHANGED <<members, db, peer, entry, env, request, council, chairman, opinions, reviews>>

\* query_council is called: an empty model_list is refused, the transient
\* OpenRouterClient needs its key, then every model is called on that client.
BeginQuery ==
    /\ entry = "query_council" /\ pc = "START"
    /\ IF Len(council) = 0
       THEN Raise("ValueError")
       ELSE IF "openrouter" \notin env
       THEN Raise("EnvironmentError")
       ELSE /\ calls' = [i \in 1..Len(council) |->
                           NewCall("openrouter", council[i], MAX_RETRIES, BACKOFF_BASE)]
            /\ sent' = Append(sent, [stage |-> "QUERY", calls |-> Len(council),
                                     temperature |-> CHAT_TEMPERATURE_DEFAULT,
                                     max_tokens |-> CHAT_MAX_TOKENS_DEFAULT])
            /\ payload' = <<request.prompt>>
            /\ overtaken' = FALSE
            /\ pc' = "QUERY"
            /\ UNCHANGED <<dispatched, clients, routed, sessions, built, raised>>
    /\ UNCHANGED <<entry, env, request, council, chairman, raw_results, opinions,
                   reviews, trace, visited, members, db, peer>>

\* The gather of query_council returns and the session is built.
QueryReturn ==
    /\ pc = "QUERY" /\ AllDone(calls)
    /\ raw_results' = GatherResults(calls)
    /\ LET b == BuildMembers(council, raw_results')
       IN IF b.exc # ""
          THEN /\ Raise(b.exc)
               /\ UNCHANGED members
          ELSE /\ members' = [i \in 1..Len(b.members) |->
                                [model     |-> b.members[i].model,
                                 response  |-> b.members[i].response,
                                 succeeded |-> b.members[i].succeeded]]
               /\ pc' = "DONE" /\ raised' = raised
               /\ UNCHANGED <<calls, payload, overtaken, dispatched, clients, routed,
                              sessions, built, sent>>
    /\ UNCHANGED <<entry, env, request, council, chairman, opinions, reviews, trace,
                   visited, db, peer>>

\* send_message up to the call of run_deliberation: the ownership check,
\* the user message and the title put into the transaction.
SendBegin ==
    /\ entry = "send_message" /\ pc = "RECEIVED"
    /\ IF ~db.owned
       THEN /\ db' = [db EXCEPT !.status = 404]
            /\ pc' = "TEARDOWN"
       ELSE /\ db' = [db EXCEPT !.added = <<Message("user", <<request.prompt>>, NoTrace)>>,
                                !.new_title = IF db.title = "New Conversation"
                                              THEN request.prompt ELSE ""]
            /\ pc' = "START"
    /\ UNCHANGED <<entry, env, request, council, chairman, calls, payload, overtaken,
                   raw_results, opinions, reviews, trace, visited, dispatched, clients,
                   routed, sessions, sent, members, built, peer, raised>>

\* db.commit(): the transaction's messages and title become the chat's.
Commit(d) ==
    [d EXCEPT !.messages = d.messages \o d.added, !.added = <<>>,
              !.title = IF d.new_title = "" THEN d.title ELSE d.new_title,
              !.new_title = ""]

\* Mutant of Rollback: the transaction is flushed instead of dropped.
RollbackFlushes(d) == Commit(d)

\* db.rollback(): the transaction is dropped.
Rollback(d) == [d EXCEPT !.added = <<>>, !.new_title = ""]

\* run_deliberation has returned or raised inside send_message's try: the
\* assistant message is added and committed, or the except clause rolls
\* back and answers 502; the commit itself may raise.
SendFinish ==
    /\ entry = "send_message" /\ pc \in {"DONE", "RAISED"}
    /\ \/ /\ pc = "DONE"
          /\ db' = [Commit([db EXCEPT !.added =
                               Append(@, Message("assistant", trace.verdict, trace))])
                      EXCEPT !.status = 200]
          /\ raised' = raised
       \/ /\ pc = "DONE"
          /\ db' = [Rollback(db) EXCEPT !.status = 502]
          /\ raised' = "SQLAlchemyError"
       \/ /\ pc = "RAISED"
          /\ db' = [Rollback(db) EXCEPT !.status = 502]
          /\ raised' = raised
    /\ pc' = "TEARDOWN"
    /\ UNCHANGED <<entry, env, request, council, chairman, calls, payload, overtaken,
                   raw_results, opinions, reviews, trace, visited, dispatched, clients,
                   routed, sessions, sent, members, built, peer>>

\* The request scope ends: get_manager's finally closes the request's manager.
ScopeEnd ==
    /\ entry = "send_message" /\ pc = "TEARDOWN"
    /\ sessions' = ManagerAfterClose([clients |-> clients, sessions |-> sessions]).sessions
    /\ built' = BuiltAfterClose(clients, sessions, built)
    /\ pc' = "RESPONDED"
    /\ UNCHANGED <<entry, env, request, council, chairman, calls, payload, overtaken,
                   raw_results, opinions, reviews, trace, visited, dispatched, clients,
                   routed, sent, members, db, peer, raised>>

\* The concurrent request's deliberation routes a chat to provider p through
\* the manager get_manager gave it.
PeerChat ==
    /\ entry = "send_message" /\ peer.st = "waiting"
    /\ \E p \in env :
          IF get_manager(2) = get_manager(1)
          THEN /\ LET m == ManagerAfterChat([clients |-> clients, sessions |-> sessions], p)
                  IN clients' = m.clients /\ sessions' = m.sessions
               /\ peer' = [peer EXCEPT !.st = "running"]
          ELSE /\ peer' = [st |-> "running", manager |-> ManagerAfterChat(peer.manager, p)]
               /\ UNCHANGED <<clients, sessions>>
    /\ UNCHANGED <<entry, env, request, council, chairman, pc, calls, payload, overtaken,
                   raw_results, opinions, reviews, trace, visited, dispatched,
                   routed, sent, members, built, db, raised>>

\* The concurrent request's scope ends: its manager is closed.
PeerScopeEnd ==
    /\ entry = "send_message" /\ peer.st = "running"
    /\ IF get_manager(2) = get_manager(1)
       THEN /\ sessions' = ManagerAfterClose([clients |-> clients,
                                              sessions |-> sessions]).sessions
            /\ peer' = [peer EXCEPT !.st = "ended"]
       ELSE /\ peer' = [st |-> "ended", manager |-> ManagerAfterClose(peer.manager)]
            /\ UNCHANGED sessions
    /\ UNCHANGED <<entry, env, request, council, chairman, pc, calls, payload, overtaken,
                   raw_results, opinions, reviews, trace, visited, dispatched, clients,
                   routed, sent, members, built, db, raised>>

Next ==
    \/ SendBegin
    \/ SendFinish
    \/ ScopeEnd
    \/ PeerChat
    \/ PeerScopeEnd
    \/ BeginOpinions
    \/ BeginReviews
    \/ BeginRun
    \/ BeginQuery
    \/ QueryReturn
    \/ \E i \in 1..Len(calls) : CallAttempt(i)
    \/ \E i \in 1..Len(calls) : CallWake(i)
    \/ \E i \in 1..Len(calls) : CallRaises(i)
    \/ ChatReturn
    \/ ManagerChat
    \/ ManagerReturn
    \/ ManagerClose
    \/ Stage1Return
    \/ Stage2Return
    \/ Stage3Return

Spec == Init /\ [][Next]_vars

\* The requests whose runs are followed to their end: one-member councils.
LiveRequests ==
    {r \in RunRequests :
        /\ r.council_models # Unset /\ Len(r.council_models[1]) = 1
        /\ r.temperature = REQUEST_TEMPERATURE_DEFAULT}

\* A call of client.chat, or a call of run_deliberation.
InitLive == InitChat \/ (InitRun /\ request \in LiveRequests)

NextLive ==
    \/ BeginRun
    \/ \E i \in 1..Len(calls) : CallAttempt(i)
    \/ \E i \in 1..Len(calls) : CallWake(i)
    \/ \E i \in 1..Len(calls) : CallRaises(i)
    \/ ChatReturn
    \/ Stage1Return
    \/ Stage2Return
    \/ Stage3Return

\* Every network attempt resolves, every backoff sleep ends and the event
\* loop resumes a coroutine whose awaited calls are all done: a step that
\* can be taken is eventually taken.
SpecLive == InitLive /\ [][NextLive]_vars /\ WF_vars(NextLive)

\* ------------------------------------------------------------------ claims
Range(seq) == {seq[i] : i \in 1..Len(seq)}

\* C1: within one gather (Stage 1 or Stage 2) a step of one slot's call,
\* whatever it is (an exception, a fallback marker, a genuine answer), leaves
\* every sibling's call untouched; the gather returns only when every slot's
\* call is done, and then slot j's entry is exactly what slot j's call left.
\* (Steps of another request running at the same time are not steps of the
\* gather.)
C1_Step ==
    (pc \in {"STAGE1", "STAGE2"} /\ peer' = peer) =>
         IF AllDone(calls)
         THEN /\ Len(raw_results') = Len(calls)
              /\ \A j \in 1..Len(calls) : raw_results'[j] = calls[j].result
         ELSE /\ raw_results' = raw_results
              /\ Len(calls') = Len(calls)
              /\ \E i \in 1..Len(calls) :
                    \A j \in 1..Len(calls) : j # i => calls'[j] = calls[j]
              /\ \A j \in 1..Len(calls) : calls[j].st = "done" => calls'[j] = calls[j]

C1_GatherIsolation == [][C1_Step]_vars

\* C1 witness: a Stage-1 gather in which slot 1 raised after slot 2 had
\* already returned its genuine answer.
C1_Witness ==
    /\ entry = "generate_opinions" /\ pc = "DONE" /\ overtaken
    /\ Len(raw_results) = 2
    /\ raw_results[1].tag = "exc"
    /\ raw_results[2] = StrResult(<<"answer">>)

\* C2: generate_opinions returns exactly N Opinions, the k-th carrying the
\* model_id and provider of the k-th input entry, whatever the calls did.
C2_Original ==
    (entry = "generate_opinions" /\ pc \in {"DONE", "RAISED"}) =>
        /\ pc = "DONE"
        /\ Len(opinions) = Len(council)
        /\ \A k \in 1..Len(council) :
              /\ opinions[k].model_id = council[k].model
              /\ opinions[k].provider = council[k].provider

\* C3: when Stage 1 returns its Opinions, the Opinion at position k has
\* response_id k, names the k-th model and carries the text that model's own
\* call returned, in whatever order the calls completed; the response_ids
\* are exactly 1..N.
C3_Step ==
    (pc = "STAGE1" /\ AllDone(calls) /\ pc' # "RAISED" /\ peer' = peer) =>
         /\ Len(opinions') = Len(calls)
         /\ \A k \in 1..Len(calls) :
               /\ opinions'[k].response_id = k
               /\ opinions'[k].model_id = council[k].model
               /\ calls[k].result.tag = "str" => opinions'[k].response = calls[k].result
         /\ {opinions'[k].response_id : k \in 1..Len(calls)} = 1..Len(calls)

C3_ResponseIdIsPosition == [][C3_Step]_vars

\* C3 witness: two Opinions with different texts, built after slot 2
\* completed before slot 1.
C3_Witness ==
    /\ entry = "generate_opinions" /\ pc = "DONE" /\ overtaken
    /\ Len(opinions) = 2
    /\ opinions[1].response.text = <<"answer">>
    /\ opinions[2].response.text = <<"handle", "error", "cases">>
    /\ opinions[1].model_id # opinions[2].model_id

\* C4: client.chat ends by returning a str, whatever its attempts met.
C4_Original ==
    (entry = "chat" /\ pc = "DONE") => raw_results[1].tag = "str"

\* C5: a Stage-1 Opinion has succeeded = false exactly when its text begins
\* with "[" and, lower-cased, contains "failed" or "error".
C5_Original ==
    (entry = "generate_opinions" /\ pc = "DONE") =>
        \A k \in 1..Len(opinions) :
            (~opinions[k].succeeded) <=>
                /\ StartsWithBracket(opinions[k].response.text)
                /\ \/ Contains(Lower(opinions[k].response.text), "failed")
                   \/ Contains(Lower(opinions[k].response.text), "error")

\* A reviewer output that is a JSON object whose rankings and
\* detailed_scores build valid items.
UsableReview(result) ==
    /\ result.tag = "str"
    /\ ~StartsWithBracket(result.text)
    /\ ParseReview(result).exc = ""

\* C6: whenever every reviewer call returned text or raised, conduct_reviews
\* returns normally, and each reviewer whose output cannot be turned into a
\* valid review has succeeded = false with empty rankings and scores.
C6_Original ==
    (/\ entry = "conduct_reviews" /\ pc \in {"DONE", "RAISED"}
     /\ \A k \in 1..Len(raw_results) : raw_results[k].tag \in {"str", "exc"}) =>
        /\ pc = "DONE"
        /\ Len(reviews) = Len(council)
        /\ \A k \in 1..Len(council) :
              ~UsableReview(raw_results[k]) =>
                  /\ ~reviews[k].succeeded
                  /\ reviews[k].rankings = <<>>
                  /\ reviews[k].detailed_scores = <<>>

\* C7: no model identifier of a council member appears in the text sent to
\* the Stage-2 reviewers.
C7_Original ==
    (entry = "run_deliberation" /\ pc = "STAGE2") =>
        \A k \in 1..Len(council) : ~Contains(payload, council[k].model)

RunPaths ==
    {<<"START", "STAGE1", "STAGE2", "STAGE3", "DONE">>,
     <<"START", "STAGE1", "SKIPPED", "STAGE3", "DONE">>}

IsPrefix(a, b) == Len(a) <= Len(b) /\ SubSeq(b, 1, Len(a)) = a

\* Every call of the last gather returned text: a genuine answer, a
\* fallback marker or an inline router error.
CallsReturnedText == \A k \in 1..Len(raw_results) : raw_results[k].tag = "str"

\* C8: every run (here: every run whose provider calls return text) follows
\* START -> STAGE1 -> (STAGE2 | SKIPPED) -> STAGE3 -> DONE, and a run that has
\* ended has executed Stage 3 exactly once.
C8_Original ==
    (entry = "run_deliberation" /\ CallsReturnedText) =>
        /\ \E path \in RunPaths : IsPrefix(visited, path)
        /\ pc \in {"DONE", "RAISED"} => (visited \in RunPaths /\ dispatched.s3 = 1)

\* C9: once Stage 1 has returned, Stage 2 has run (its reviewer calls were
\* dispatched, one per council member) if and only if some Opinion has
\* succeeded = true; otherwise no reviewer call was dispatched and the
\* Review sequence, also in the trace, is empty.
C9_Stage2IffSomeSucceeded ==
    (entry = "run_deliberation" /\ opinions # <<>>) =>
        LET some == \E k \in 1..Len(opinions) : opinions[k].succeeded
        IN /\ ("STAGE2" \in Range(visited)) <=> some
           /\ ("SKIPPED" \in Range(visited)) <=> ~some
           /\ dispatched.s2 = IF some THEN Len(council) ELSE 0
           /\ ~some => (reviews = <<>> /\ (pc = "DONE" => trace.stage2_reviews = <<>>))

\* C9 witness: a finished run whose two Opinions both failed.
C9_Witness ==
    /\ entry = "run_deliberation" /\ pc = "DONE"
    /\ Len(opinions) = 2
    /\ \A k \in 1..2 : ~opinions[k].succeeded
    /\ dispatched.s2 = 0 /\ dispatched.s3 = 1
    /\ trace.stage2_reviews = <<>>

\* C10: run_deliberation does not raise under the failures of the taxonomy
\* (here: with every provider call returning text, the reviewers' text being
\* parseable or not).
C10_Original ==
    (entry = "run_deliberation" /\ CallsReturnedText) => pc # "RAISED"

\* ------------------------------------------------- claims on the retry loop
\* A step inside one gather (or one awaited call): only calls move.
SameGather == InGather /\ pc' = pc /\ Len(calls') = Len(calls)

\* The fallback string of the client serving `call`.
FallbackOf(call) == StrResult(FallbackResponse(call.provider, call.model, call.max_retries))

\* In this step the POST of slot i's current attempt failed with an error
\* named in errs: the call backs off or returns its fallback.
FailedWith(i, errs) ==
    /\ calls[i].st = "posting" /\ calls'[i] # calls[i]
    /\ calls'[i].last_error \in errs
    /\ \/ calls'[i].st = "sleeping"
       \/ calls'[i].st = "done" /\ calls'[i].result = FallbackOf(calls[i])

\* In this step the backoff sleep of slot i ended.
Woke(i) == calls[i].st = "sleeping" /\ calls'[i] # calls[i]

NetworkErrors == {<<"conn">>, <<"server_timeout">>, <<"timeout">>}

\* C11: one call of chat makes at most max_retries POST attempts whatever the
\* attempts meet: the attempt number never decreases, is never above
\* max_retries, a POST is made only under a number one above the previous
\* POST's, and no number is posted twice.
C11_Step ==
    SameGather =>
        \A i \in 1..Len(calls) :
            /\ calls[i].attempt <= calls[i].max_retries
            /\ calls'[i].attempt <= calls'[i].max_retries
            /\ calls'[i].attempt >= calls[i].attempt
            /\ (calls'[i].st = "posting" /\ calls'[i] # calls[i])
                   => /\ calls[i].st = "sleeping"
                      /\ calls'[i].attempt = calls[i].attempt + 1
            /\ (calls[i].st = "posting" /\ calls'[i] # calls[i])
                   => /\ calls'[i].st # "posting"
                      /\ calls'[i].attempt = calls[i].attempt

C11_AtMostMaxRetriesAttempts == [][C11_Step]_vars

\* A call that used every attempt of a client given at least two, the last
\* one ending in a connection error.
C11_Witness ==
    /\ entry = "chat" /\ calls[1].st = "done"
    /\ calls[1].max_retries >= 2 /\ calls[1].attempt = calls[1].max_retries
    /\ calls[1].last_error = <<"conn">>
    /\ calls[1].result = FallbackOf(calls[1])

\* C12: when attempt k fails with a connection error, a server timeout or a
\* connect/read timeout and k < max_retries, the call sleeps and the end of
\* that sleep is the POST of attempt k+1; such a failure ends the call only
\* at k = max_retries.
C12_Step ==
    SameGather =>
        \A i \in 1..Len(calls) :
            /\ (FailedWith(i, NetworkErrors) /\ calls[i].attempt < calls[i].max_retries)
                   => calls'[i].st = "sleeping" /\ calls'[i].attempt = calls[i].attempt
            /\ (FailedWith(i, NetworkErrors) /\ calls'[i].st = "done")
                   => calls[i].attempt = calls[i].max_retries
            /\ (Woke(i) /\ calls[i].last_error \in NetworkErrors)
                   => /\ calls'[i].st = "posting"
                      /\ calls'[i].attempt = calls[i].attempt + 1

C12_NetworkFailureRetried == [][C12_Step]_vars

\* Attempt 2 is being posted after attempt 1 met a server timeout.
C12_Witness ==
    /\ entry = "chat" /\ calls[1].st = "posting" /\ calls[1].attempt = 2
    /\ calls[1].last_error = <<"server_timeout">>

\* C13: when attempt k fails with HTTP status 429 and k < max_retries, the
\* call sleeps and then posts attempt k+1; a 429 ends the call only at
\* k = max_retries.
C13_Step ==
    SameGather =>
        \A i \in 1..Len(calls) :
            /\ (FailedWith(i, {<<"HTTP", 429>>}) /\ calls[i].attempt < calls[i].max_retries)
                   => calls'[i].st = "sleeping" /\ calls'[i].attempt = calls[i].attempt
            /\ (FailedWith(i, {<<"HTTP", 429>>}) /\ calls'[i].st = "done")
                   => calls[i].attempt = calls[i].max_retries
            /\ (Woke(i) /\ calls[i].last_error = <<"HTTP", 429>>)
                   => /\ calls'[i].st = "posting"
                      /\ calls'[i].attempt = calls[i].attempt + 1

C13_RateLimitRetried == [][C13_Step]_vars

\* Attempt 2 is being posted after attempt 1 was answered 429.
C13_Witness ==
    /\ entry = "chat" /\ calls[1].st = "posting" /\ calls[1].attempt = 2
    /\ calls[1].last_error = <<"HTTP", 429>>

\* The statuses 400..499 other than 429.
ClientErrors == {<<"HTTP", st>> : st \in (400..499) \ {429}}

\* C14: when an attempt fails with an HTTP status in 400..499 other than 429,
\* the call ends in that step with its client's fallback string, whatever
\* attempts remain: no sleep is started, and a call that has ended makes no
\* further step.
C14_Step ==
    SameGather =>
        \A i \in 1..Len(calls) :
            /\ FailedWith(i, ClientErrors)
                   => /\ calls'[i].st = "done" /\ calls'[i].sleep_time = 0
                      /\ calls'[i].attempt = calls[i].attempt
                      /\ calls'[i].result = FallbackOf(calls[i])
            /\ calls[i].st = "done" => calls'[i] = calls[i]

C14_ClientErrorAborts == [][C14_Step]_vars

\* A client given at least two attempts ended on its first, answered 404.
C14_Witness ==
    /\ entry = "chat" /\ calls[1].st = "done"
    /\ calls[1].max_retries >= 2 /\ calls[1].attempt = 1
    /\ calls[1].last_error = <<"HTTP", 404>>
    /\ calls[1].result = FallbackOf(calls[1])

\* Errors that are neither network/timeout errors nor HTTP status errors: a
\* payload without choices[0].message.content, a 200 answer whose body is
\* not JSON, any other exception.
UnexpectedErrors == {<<"malformed">>, <<"HTTP", 200>>, <<"other">>}

\* C15: when an attempt fails with an error that is neither a network/timeout
\* error nor an HTTP status error, a malformed response payload included, the
\* call ends in that step with the fallback string and starts no sleep.
C15_Original ==
    [][SameGather =>
         \A i \in 1..Len(calls) :
             FailedWith(i, UnexpectedErrors)
                => calls'[i].st = "done" /\ calls'[i].result = FallbackOf(calls[i])]_vars

\* The retryable failures: those after which the loop reaches its backoff.
RetryableErrors == NetworkErrors \cup {<<"HTTP", 429>>, <<"HTTP", 500>>, <<"HTTP", 200>>}

\* C16: a backoff sleep starts only from a failed attempt k < max_retries
\* whose failure did not abort the loop, and lasts at least the floor of
\* 0.5 s, which is positive, for every jitter in [-jitter, +jitter].
C16_Step ==
    SameGather =>
        \A i \in 1..Len(calls) :
            /\ (calls'[i].st = "sleeping" /\ calls'[i] # calls[i])
                   => /\ calls[i].st = "posting"
                      /\ calls[i].attempt < calls[i].max_retries
                      /\ calls'[i].last_error \in RetryableErrors
                      /\ calls'[i].sleep_time >= MinSleep
            /\ \A j \in JitterValues :
                   /\ SleepTime(calls[i].backoff_base, calls[i].attempt, j) >= MinSleep
                   /\ SleepTime(calls[i].backoff_base, calls[i].attempt, j) > 0
            /\ calls'[i].st # "sleeping" => calls'[i].sleep_time = 0

C16_BackoffOnlyBetweenAttempts == [][C16_Step]_vars

\* A sleep that the floor lengthened: base 0, so the jittered duration was
\* at most one second and could be negative.
C16_Witness ==
    /\ entry = "chat" /\ calls[1].st = "sleeping"
    /\ calls[1].backoff_base = 0 /\ calls[1].sleep_time = MinSleep
    /\ calls[1].attempt < calls[1].max_retries

\* "[<model> failed to respond after <N> retries]"
SpecFallback(model, n) ==
    <<"[", model, "failed", "to respond after", ToString(n), "retries", "]">>

\* C17: a call of either provider client that ends without a successful
\* attempt returns "[<model> failed to respond after <N> retries]", <model>
\* being the requested model and <N> the client's max_retries.
C17_Original ==
    [][SameGather =>
         \A i \in 1..Len(calls) :
             (FailedWith(i, NetworkErrors \cup RetryableErrors \cup ClientErrors
                                \cup UnexpectedErrors)
              /\ calls'[i].st = "done")
                => calls'[i].result
                     = StrResult(SpecFallback(calls[i].model, calls[i].max_retries))]_vars

\* -------------------------------------------------- claims on the router
\* ProviderManager.chat is entered in this step, with config Requested.
RouteStep == entry = "manager" /\ pc = "IDLE" /\ pc' = "ROUTED"
Requested == routed'[Len(routed')]

\* "[Error: Unknown provider '<id>']"
SpecUnknownProvider(id) == <<"[", "Error", ":", "Unknown provider", "'", id, "'", "]">>

\* C18: for a config whose provider identifier <id> is not a known provider,
\* ProviderManager.chat answers "[Error: Unknown provider '<id>']" at once:
\* nothing is raised, no client is constructed, no attempt is made.
C18_Original ==
    [][(RouteStep /\ LowerTok(Requested.provider) \notin KnownProviders)
          => /\ calls'[1].st = "done" /\ calls'[1].attempt = 0
             /\ calls'[1].result = StrResult(SpecUnknownProvider(Requested.provider))
             /\ clients' = clients]_vars

\* The names a provider goes by.
ProviderNames(provider) ==
    IF provider = "openrouter"
    THEN {"openrouter", "OpenRouter", "OPENROUTER", "OPENROUTER_API_KEY"}
    ELSE {"groq", "Groq", "GROQ", "GROQ_API_KEY"}

\* "[Error: <PROVIDER> is not configured]"
SpecNotConfigured(name) == <<"[", "Error", ":", name, "is not configured", "]">>

\* C19: for a config of a known provider whose credential is absent,
\* ProviderManager.chat answers "[Error: <PROVIDER> is not configured]" at
\* once: nothing is raised, no client is constructed for that provider, no
\* attempt is made.
C19_Original ==
    [][(RouteStep /\ LowerTok(Requested.provider) \in KnownProviders \ env)
          => /\ calls'[1].st = "done" /\ calls'[1].attempt = 0
             /\ \E name \in ProviderNames(LowerTok(Requested.provider)) :
                    calls'[1].result = StrResult(SpecNotConfigured(name))
             /\ clients' = clients]_vars

\* The providers requested in routed.
ProvidersOf(configs) == {LowerTok(configs[k].provider) : k \in 1..Len(configs)}

\* C20: a client exists only for a provider some request was routed to; a
\* request to a provider whose key is set is served by that provider's
\* client, and one to a provider whose key is missing gets the inline error
\* and builds nothing, whatever the other provider's key and whatever was
\* requested before.
C20_Step ==
    /\ clients \subseteq ProvidersOf(routed)
    /\ clients' \subseteq ProvidersOf(routed')
    /\ \A k \in (Len(routed) + 1)..Len(routed') :
          LET p == LowerTok(routed'[k].provider)
              call == calls'[k - Len(routed)]
          IN p \in KnownProviders =>
                IF p \in env
                THEN call.provider = p /\ call.st = "posting" /\ p \in clients'
                ELSE /\ call = InlineCall(routed'[k].model, NotConfigured(p))
                     /\ p \notin clients'

C20_LazyIndependentClients == [][C20_Step]_vars

\* Only OpenRouter is configured; Groq was asked first and refused inline,
\* OpenRouter was asked next and answered through its client.
C20_Witness ==
    /\ entry = "manager" /\ pc = "IDLE" /\ env = {"openrouter"}
    /\ Len(routed) = 2
    /\ routed[1].provider = "Groq" /\ routed[2].provider = "openrouter"
    /\ clients = {"openrouter"}
    /\ raw_results = <<StrResult(<<"answer">>)>>

\* ----------------------------------------------------- claims on teardown
\* C21: ProviderManager.close closes the open session of every client the
\* manager has constructed and touches nothing else; it does not raise, with
\* zero, one or two clients constructed; and the state a close leaves is
\* the state a further close leaves again.
C21_Step ==
    /\ entry = "manager" => pc' # "RAISED"
    /\ (entry = "manager" /\ pc' = "CLOSED" /\ pc # "CLOSED")
          => /\ clients' = clients /\ raised' = ""
             /\ \A p \in KnownProviders :
                   /\ p \in clients
                        => sessions'[p] = (IF sessions[p] = "open" THEN "closed" ELSE sessions[p])
                   /\ p \notin clients => sessions'[p] = "none" /\ sessions[p] = "none"
    /\ pc' = "CLOSED"
          => /\ \A p \in KnownProviders : sessions'[p] # "open"
             /\ CloseManager(clients', sessions') = [sessions |-> sessions', exc |-> ""]

C21_CloseIdempotentPartial == [][C21_Step]_vars

\* Only the OpenRouter client was constructed and used; close has closed its
\* session and left the absent Groq client alone.
C21_Witness ==
    /\ entry = "manager" /\ pc = "CLOSED"
    /\ clients = {"openrouter"}
    /\ sessions["openrouter"] = "closed" /\ sessions["groq"] = "none"

\* ------------------------------------------------------ claims on Stage 2
\* C22: when Stage 2 has run with R reviewers, conduct_reviews has returned
\* exactly R Reviews, the k-th naming the k-th reviewer model and provider,
\* whatever each reviewer's call produced and in whatever order they
\* completed; a reviewer that failed is there with succeeded = FALSE.
C22_Original ==
    (entry = "conduct_reviews" /\ pc \in {"DONE", "RAISED"} /\ CallsReturnedText) =>
        /\ pc = "DONE"
        /\ Len(reviews) = Len(council)
        /\ \A k \in 1..Len(council) :
              /\ reviews[k].reviewer_model_id = council[k].model
              /\ reviews[k].reviewer_provider = council[k].provider
              /\ ReviewerFailed(raw_results[k]) => ~reviews[k].succeeded

\* The three ways a reviewer writes the JSON document named doc: bare,
\* inside a json fence, inside a plain fence.
Forms(doc) == {<<doc>>, <<"FENCE_JSON", doc, "FENCE">>, <<"FENCE", doc, "FENCE">>}

\* C23: a reviewer's JSON output yields the same Review whether it arrives
\* bare, in a json fence or in a plain fence; the fenced empty document
\* yields succeeded = TRUE with no rankings and no scores.
C23_Original ==
    (entry = "conduct_reviews" /\ pc \in {"DONE", "RAISED"}) =>
        \A k \in 1..Len(raw_results) :
            \A doc \in JsonDocs :
                (raw_results[k].tag = "str" /\ raw_results[k].text \in Forms(doc))
                   => /\ \A form \in Forms(doc) :
                            Review(council[k], StrResult(form))
                               = Review(council[k], raw_results[k])
                      /\ doc = "J:empty"
                            => /\ pc = "DONE" /\ reviews[k].succeeded
                               /\ reviews[k].rankings = <<>>
                               /\ reviews[k].detailed_scores = <<>>

\* The tokens that follow each occurrence of the token head in text, in order.
RECURSIVE After(_, _)
After(text, head) ==
    IF Len(text) < 2 THEN <<>>
    ELSE IF text[1] = head THEN <<text[2]>> \o After(Tail(text), head)
    ELSE After(Tail(text), head)

\* a occurs in b as a run of consecutive tokens.
IsInfix(a, b) == \E i \in 0..(Len(b) - Len(a)) : SubSeq(b, i + 1, i + Len(a)) = a

\* C24: the block anonymize_opinions builds for the reviewers has exactly one
\* section per Opinion supplied, headed by that Opinion's response_id, in
\* input order and carrying its text; the mapping returned has exactly the
\* supplied response_ids as keys, each mapped to its Opinion's model_id.
C24_AnonymizePreservesIds ==
    ((entry \in {"run_deliberation", "conduct_reviews"}) /\ pc = "STAGE2") =>
        LET a == anonymize_opinions(opinions)
        IN /\ payload = <<"Original User Query:", "PROMPT", "Council Responses to Review:">>
                         \o a.text
           /\ After(a.text, "### Response #")
                 = [i \in 1..Len(opinions) |-> ToString(opinions[i].response_id)]
           /\ \A i \in 1..Len(opinions) :
                 IsInfix(<<"### Response #", ToString(opinions[i].response_id), "\n">>
                            \o opinions[i].response.text \o <<"\n">>, a.text)
           /\ DOMAIN a.mapping = {opinions[i].response_id : i \in 1..Len(opinions)}
           /\ \A i \in 1..Len(opinions) :
                 a.mapping[opinions[i].response_id] = opinions[i].model_id

\* Stage 2 was sent the block of a two-member council whose first member
\* failed and whose second answered.
C24_Witness ==
    /\ entry = "run_deliberation" /\ pc = "STAGE2" /\ Len(opinions) = 2
    /\ ~opinions[1].succeeded /\ opinions[2].succeeded
    /\ opinions[1].model_id # opinions[2].model_id

\* The part of the chairman payload between its two section titles.
OpinionSection(text) ==
    LET i == CHOOSE i \in 1..Len(text) : text[i] = "COUNCIL OPINIONS:"
        j == CHOOSE j \in 1..Len(text) : text[j] = "PEER REVIEWS:"
    IN SubSeq(text, i + 1, j - 1)

ReviewSection(text) ==
    LET j == CHOOSE j \in 1..Len(text) : text[j] = "PEER REVIEWS:"
    IN SubSeq(text, j + 1, Len(text))

\* How many tokens of text are the token tok.
Occurrences(text, tok) == Cardinality({i \in 1..Len(text) : text[i] = tok})

\* C25: the payload sent to the chairman carries the section of an Opinion
\* exactly when that Opinion has succeeded = TRUE, and the assessments of a
\* Review exactly when that Review has succeeded = TRUE; with no successful
\* Opinion its opinion section is empty.
C25_PayloadOnlySuccessful ==
    (entry = "run_deliberation" /\ pc = "STAGE3") =>
        LET os == OpinionSection(payload)
            rs == ReviewSection(payload)
        IN /\ \A i \in 1..Len(opinions) :
                 opinions[i].succeeded <=>
                    IsInfix(<<"--- RESPONSE #", ToString(opinions[i].response_id), "---\n">>
                               \o opinions[i].response.text \o <<"\n">>, os)
           /\ Occurrences(os, "--- RESPONSE #")
                 = Cardinality({i \in 1..Len(opinions) : opinions[i].succeeded})
           /\ (\A i \in 1..Len(opinions) : ~opinions[i].succeeded) => os = <<>>
           /\ Occurrences(rs, "Reviewer Model (Anonymized):")
                 = Cardinality({k \in 1..Len(reviews) : reviews[k].succeeded})
           /\ Occurrences(rs, "Critique:")
                 = Cardinality(UNION {{<<k, n>> : n \in 1..Len(reviews[k].detailed_scores)} :
                                         k \in {k \in 1..Len(reviews) : reviews[k].succeeded}})
           /\ \A k \in 1..Len(reviews) :
                 reviews[k].succeeded =>
                    \A n \in 1..Len(reviews[k].detailed_scores) :
                        IsInfix(<<"Critique:", reviews[k].detailed_scores[n].critique>>, rs)

\* Stage 3 was sent a payload built from one failed and one successful
\* Opinion and from one failed and one successful Review.
C25_Witness ==
    /\ entry = "run_deliberation" /\ pc = "STAGE3"
    /\ Len(opinions) = 2 /\ Len(reviews) = 2
    /\ ~opinions[1].succeeded /\ opinions[2].succeeded
    /\ reviews[1].succeeded /\ ~reviews[2].succeeded
    /\ Len(reviews[1].detailed_scores) = 1

\* ------------------------------------------------------ claims on Stage 3
\* The scatters of the council stages sent so far.
CouncilScatters == {k \in 1..Len(sent) : sent[k].stage \in {"STAGE1", "STAGE2"}}

\* C26: the one chairman call of Stage 3 is sent with a temperature strictly
\* below that of every council stage of the run (Stage 1 carries the
\* request's temperature, Stage 2 its own) and with a max_tokens strictly
\* above that of every council call.
C26_Original ==
    (entry = "run_deliberation" /\ pc = "STAGE3") =>
        LET s3 == sent[Len(sent)]
        IN /\ s3.stage = "STAGE3" /\ s3.calls = 1
           /\ \A k \in CouncilScatters :
                 /\ s3.temperature < sent[k].temperature
                 /\ s3.max_tokens > sent[k].max_tokens

\* Stage 3 is over: the chairman call has returned to synthesize_deliberation.
Stage3Over ==
    /\ entry = "run_deliberation" /\ pc \in {"DONE", "RAISED"}
    /\ Len(sent) > 0 /\ sent[Len(sent)].stage = "STAGE3"

\* The chairman's call did not succeed: it raised, the router answered
\* inline, or the client returned its fallback string.
ChairmanCallFailed ==
    \/ raw_results[1].tag = "exc"
    \/ calls[1].provider = "none"
    \/ raw_results[1] = FallbackOf(calls[1])

\* C27: Stage 3 never raises: whatever the chairman's call produced, the
\* synthesis returns a string, and when the call failed that string names
\* the chairman model and says what failed.
C27_Original ==
    Stage3Over =>
        /\ pc = "DONE"
        /\ ChairmanCallFailed =>
              /\ Contains(trace.verdict, chairman.model)
              /\ \/ Contains(Lower(trace.verdict), "failed")
                 \/ Contains(Lower(trace.verdict), "error")

\* C30: in every DeliberationTrace run_deliberation returns, council_size is
\* the number of Opinions in the trace, the number of Reviews is 0 when
\* Stage 2 was skipped and the council size otherwise, chairman_model is
\* the model called in Stage 3 and original_prompt is the request's prompt.
C30_TraceMetaConsistent ==
    (entry = "run_deliberation" /\ pc = "DONE") =>
        /\ trace.council_size = Len(trace.stage1_opinions)
        /\ trace.council_size = Len(ResolveCouncil(request))
        /\ Len(trace.stage2_reviews) \in {0, trace.council_size}
        /\ Len(trace.stage2_reviews) = 0 <=> (\A k \in 1..Len(sent) : sent[k].stage # "STAGE2")
        /\ sent[Len(sent)].stage = "STAGE3"
        /\ trace.chairman_model = calls[1].model
        /\ trace.chairman_model = routed[Len(routed)].model
        /\ trace.original_prompt = request.prompt

\* A trace returned for a two-member council one of whose members failed,
\* Stage 2 having run.
C30_Witness ==
    /\ entry = "run_deliberation" /\ pc = "DONE"
    /\ trace.council_size = 2 /\ Len(trace.stage2_reviews) = 2
    /\ ~trace.stage1_opinions[1].succeeded /\ trace.stage1_opinions[2].succeeded

\* ------------------------------------------------------ fallback detection
\* The text mentions an error or a failure without opening with a bracket.
MentionsErrorUnbracketed(text) ==
    /\ Len(text) > 0 /\ text[1] # "["
    /\ \E i \in 1..Len(text) : text[i] \in {"error", "Error", "failed", "FAILED"}

\* C28: a member of query_council whose call returned a string is failed
\* exactly when the string opens with '[' and, lower-cased, contains
\* 'failed' or 'error'; so an answer that mentions an error or a failure
\* without opening with '[' is succeeded, in query_council and in
\* generate_opinions alike.
C28_FallbackNeedsBracket ==
    /\ (entry = "query_council" /\ pc = "DONE") =>
          \A i \in 1..Len(members) :
             raw_results[i].tag = "str" =>
                /\ members[i].response = raw_results[i].text
                /\ members[i].succeeded <=>
                      ~(/\ Len(raw_results[i].text) > 0 /\ raw_results[i].text[1] = "["
                        /\ \E k \in 1..Len(raw_results[i].text) :
                              raw_results[i].text[k] \in {"error", "Error", "failed", "FAILED"})
                /\ MentionsErrorUnbracketed(raw_results[i].text) => members[i].succeeded
    /\ (entry = "generate_opinions" /\ pc = "DONE") =>
          \A i \in 1..Len(opinions) :
             (raw_results[i].tag = "str" /\ MentionsErrorUnbracketed(raw_results[i].text))
                => opinions[i].succeeded

\* A session in which a member answered "handle error cases" and counts as
\* succeeded, next to a member whose bracketed "[Error] ..." answer does not.
C28_Witness ==
    /\ entry = "query_council" /\ pc = "DONE" /\ Len(members) = 2
    /\ members[1].response = <<"handle", "error", "cases">> /\ members[1].succeeded
    /\ members[2].response = <<"[", "Error", "]", "is what the log shows">>
    /\ ~members[2].succeeded

\* --------------------------------------------------- escaped exceptions
\* The text is bracketed and names the model.
BracketedNaming(text, model) ==
    /\ Len(text) > 1 /\ text[1] = "[" /\ text[Len(text)] = "]"
    /\ \E k \in 1..Len(text) : text[k] = model

\* C29: when a Stage-1 call raises past the client and the router, the
\* gather completes, the Opinion (or session member) of that slot has
\* succeeded = false and a bracketed text naming the slot's model that the
\* fallback detection of its path classifies as failed, and the stage does
\* not raise that exception: it raises only when some other call returned
\* no string.
C29_Step ==
    /\ (entry = "generate_opinions" /\ pc = "STAGE1" /\ pc' = "DONE") =>
          \A k \in 1..Len(calls) :
             calls[k].result.tag = "exc" =>
                /\ Len(opinions') = Len(calls)
                /\ ~opinions'[k].succeeded
                /\ opinions'[k].response.tag = "str"
                /\ BracketedNaming(opinions'[k].response.text, council[k].model)
                /\ Stage1Failed(opinions'[k].response.text)
                /\ _is_fallback(opinions'[k].response.text)
    /\ (entry = "query_council" /\ pc = "QUERY" /\ pc' = "DONE") =>
          \A k \in 1..Len(calls) :
             calls[k].result.tag = "exc" =>
                /\ Len(members') = Len(calls)
                /\ ~members'[k].succeeded
                /\ BracketedNaming(members'[k].response, council[k])
                /\ _is_fallback(members'[k].response)
    /\ (entry \in {"generate_opinions", "query_council"}
           /\ pc \in {"STAGE1", "QUERY"} /\ pc' = "RAISED") =>
          /\ AllDone(calls)
          /\ raised' \notin {calls[k].result.exc : k \in 1..Len(calls)}
          /\ \E k \in 1..Len(calls) : calls[k].result.tag = "none"
    /\ (entry \in {"generate_opinions", "query_council"}
           /\ pc \in {"STAGE1", "QUERY"}
           /\ (\E k \in 1..Len(calls) : calls[k].result.tag = "exc")
           /\ (\A j \in 1..Len(calls) : calls[j].result.tag # "none")) =>
          pc' # "RAISED"

C29_EscapedExceptionBecomesFallback == [][C29_Step]_vars

\* Stage 1 returned its Opinions after slot 1 raised and slot 2 answered.
C29_Witness ==
    /\ entry = "generate_opinions" /\ pc = "DONE" /\ Len(opinions) = 2
    /\ raw_results[1].tag = "exc" /\ raw_results[2] = StrResult(<<"answer">>)
    /\ ~opinions[1].succeeded /\ opinions[2].succeeded

\* ---------------------------------------------------- end-to-end scenarios
\* The call timed out on every one of its attempts.
TimedOutEveryAttempt(call) ==
    /\ call.st = "done" /\ call.provider # "none"
    /\ call.attempt = call.max_retries /\ call.last_error = <<"timeout">>

\* The call met no failure and returned the content of a 200 answer.
Answered(call) ==
    /\ call.st = "done" /\ call.provider # "none"
    /\ call.last_error = <<"unknown error">> /\ call.result.tag = "str"

\* Scenario A at the end of the Stage-1 gather: four members, slot f timed
\* out on every attempt, the three others answered.
ScenarioA(f) ==
    /\ entry = "run_deliberation" /\ pc = "STAGE1" /\ AllDone(calls)
    /\ Len(calls) = 4 /\ f \in 1..4
    /\ TimedOutEveryAttempt(calls[f])
    /\ \A j \in 1..4 : j # f => Answered(calls[j])

\* C31: with four council models of which exactly one times out on every
\* attempt while the three others answer, Stage 1 yields four Opinions,
\* three succeeded and one failed; the failed one sits at the failing
\* model's position and its text is a bracketed fallback marker containing
\* that model's identifier; the trace returned carries these Opinions.
C31_Step ==
    /\ \A f \in 1..4 :
          ScenarioA(f) =>
             /\ pc' # "RAISED"
             /\ Len(opinions') = 4
             /\ \A j \in 1..4 : opinions'[j].succeeded <=> j # f
             /\ Cardinality({j \in 1..4 : opinions'[j].succeeded}) = 3
             /\ opinions'[f].model_id = council[f].model
             /\ opinions'[f].response.tag = "str"
             /\ opinions'[f].response.text[1] = "["
             /\ Contains(opinions'[f].response.text, "failed")
             /\ Contains(opinions'[f].response.text, council[f].model)
    /\ (entry = "run_deliberation" /\ pc' = "DONE") =>
          /\ trace'.stage1_opinions = opinions'
          /\ opinions' = opinions

C31_ScenarioA == [][C31_Step]_vars

\* The trace of a four-member council whose third member timed out.
C31_Witness ==
    /\ entry = "run_deliberation" /\ pc = "DONE"
    /\ Len(trace.stage1_opinions) = 4
    /\ trace.stage1_opinions[3].response =
          StrResult(<<"[", "arcee-ai/trinity-mini:free", "failed", "to respond after",
                      "1", "retries", "]">>)
    /\ ~trace.stage1_opinions[3].succeeded
    /\ \A j \in {1, 2, 4} : /\ trace.stage1_opinions[j].succeeded
                             /\ trace.stage1_opinions[j].response = StrResult(<<"answer">>)

\* --------------------------------------------------------- model resolution
\* The scatters of one stage so far.
ScattersOf(stg) == {k \in 1..Len(sent) : sent[k].stage = stg}

\* C32: run_deliberation uses the default council when the request leaves
\* council_models unspecified and the default chairman when it leaves
\* chairman_model unspecified, and otherwise exactly the list and the
\* chairman the request gives; that one list is what Stage 1 calls, what
\* Stage 2 uses as reviewers and what council_size counts.
C32_Original ==
    (entry = "run_deliberation" /\ pc # "START") =>
        /\ council = IF request.council_models = Unset
                     THEN DEFAULT_COUNCIL_MODELS
                     ELSE request.council_models[1]
        /\ chairman = IF request.chairman_model = NoConfig
                      THEN DEFAULT_CHAIRMAN_MODEL
                      ELSE request.chairman_model
        /\ SubSeq(routed, 1, Len(council)) = council
        /\ ScattersOf("STAGE2") # {} =>
              SubSeq(routed, Len(council) + 1, 2 * Len(council)) = council
        /\ pc = "DONE" => trace.council_size = Len(council)

\* ------------------------------------------------------- ordering of stages
Stages == {"STAGE1", "STAGE2", "STAGE3"}

EveryCallCompleted == \A i \in 1..Len(calls) : calls[i].st = "done"

\* A call as it is when its coroutine has just been started: posting its
\* first attempt, or already answered without any POST.
JustStarted(call) ==
    \/ call.st = "posting" /\ call.attempt = 1 /\ call.result = Pending
    \/ call.st = "done" /\ call.attempt = 0

\* C33: within one request all calls of a council stage are started
\* together, one per council member and before any of them is awaited; none
\* is started later in the stage; a stage is left only when every call of it
\* has completed, so no Stage-2 call starts before every Stage-1 call has
\* completed and the Stage-3 call starts only after every Stage-2 call has
\* completed or Stage 2 was skipped.
C33_Step ==
    /\ (pc' \in {"STAGE1", "STAGE2"} /\ pc' # pc) =>
          /\ Len(calls') = Len(council')
          /\ \A i \in 1..Len(calls') : JustStarted(calls'[i])
    /\ (pc \in Stages /\ pc' = pc) =>
          /\ Len(calls') = Len(calls)
          /\ dispatched' = dispatched
    /\ (pc \in Stages /\ pc' # pc) => EveryCallCompleted
    /\ dispatched'.s1 # dispatched.s1 => pc = "START"
    /\ dispatched'.s2 # dispatched.s2 =>
          \/ pc = "STAGE1" /\ EveryCallCompleted
          \/ pc = "START" /\ entry = "conduct_reviews"
    /\ dispatched'.s3 # dispatched.s3 =>
          \/ pc = "STAGE2" /\ EveryCallCompleted
          \/ /\ pc = "STAGE1" /\ EveryCallCompleted /\ dispatched.s2 = 0
             /\ \A i \in 1..Len(opinions') : ~opinions'[i].succeeded

C33_StagesStartTogetherInOrder == [][C33_Step]_vars

\* A run whose two Stage-1 calls, two Stage-2 calls and chairman call have
\* all been started, the chairman's still in flight.
C33_Witness ==
    /\ entry = "run_deliberation" /\ pc = "STAGE3"
    /\ dispatched = [s1 |-> 2, s2 |-> 2, s3 |-> 1]
    /\ calls[1].st = "posting"

\* ------------------------------------------------- one client, one session
\* The calls of the current gather that are in flight on provider p's client.
InFlight(p) == {i \in 1..Len(calls) : calls[i].provider = p /\ calls[i].st # "done"}

\* The operations whose calls go through a ProviderManager.
ManagerEntries ==
    {"manager", "generate_opinions", "conduct_reviews", "run_deliberation", "send_message"}

\* C34: within one ProviderManager at most one client object is ever
\* constructed per provider and at most one of its ClientSession objects is
\* open at a time, however many chat calls are routed to the provider and
\* run concurrently: they all go through that client and that session.
C34_OneClientOneSession ==
    entry \in ManagerEntries =>
    \A p \in KnownProviders :
        /\ built.clients[p] <= 1
        /\ built.live[p] <= 1
        /\ built.clients[p] = 1 <=> p \in clients
        /\ built.live[p] = 1 <=> sessions[p] = "open"
        /\ InFlight(p) # {} =>
              /\ built.clients[p] = 1 /\ p \in clients
              /\ built.live[p] = 1 /\ sessions[p] = "open"

\* Two calls in flight at once on the OpenRouter client, after an earlier
\* stage already used it: still one client and one open session.
C34_Witness ==
    /\ entry = "run_deliberation" /\ pc = "STAGE2"
    /\ Cardinality(InFlight("openrouter")) = 2
    /\ built.clients["openrouter"] = 1 /\ built.live["openrouter"] = 1

\* ------------------------------------------------------------ send_message
\* send_message has answered.
Answered502 == entry = "send_message" /\ db.status = 502
Answered200 == entry = "send_message" /\ db.status = 200
Answered404 == entry = "send_message" /\ db.status = 404

\* C39: send_message persists all or nothing: when run_deliberation
\* returned and the commit went through, the user message, the assistant
\* message with its trace and the title change are committed together and
\* the answer is 200; when run_deliberation or the commit raised, nothing is
\* persisted, the transaction is empty and the answer is 502; for a chat the
\* caller does not own nothing is persisted and no deliberation runs.
C39_AllOrNothing ==
    /\ Answered200 =>
          /\ db.owned /\ raised = "" /\ trace # NoTrace
          /\ db.messages = <<Message("user", <<request.prompt>>, NoTrace),
                              Message("assistant", trace.verdict, trace)>>
          /\ db.title \in {request.prompt, "Budget review"}
          /\ db.added = <<>> /\ db.new_title = ""
    /\ Answered502 =>
          /\ db.owned /\ raised # ""
          /\ db.messages = <<>> /\ db.title \in {"New Conversation", "Budget review"}
          /\ db.added = <<>> /\ db.new_title = ""
    /\ Answered404 =>
          /\ ~db.owned
          /\ db.messages = <<>> /\ db.added = <<>> /\ db.new_title = ""
          /\ db.title \in {"New Conversation", "Budget review"}
          /\ routed = <<>> /\ dispatched = NoDispatch /\ trace = NoTrace
    /\ (entry = "send_message" /\ pc \in {"TEARDOWN", "RESPONDED"}) =>
          /\ db.status \in {200, 404, 502}
          /\ db.owned => (db.status = 200 <=> raised = "")
    /\ (entry = "send_message" /\ db.status = 0) => db.messages = <<>>

\* run_deliberation raised on a first message: the answer is 502 and
\* neither the message nor the new title was kept.
C39_Witness ==
    /\ Answered502 /\ pc = "RESPONDED" /\ raised = "ValidationError"
    /\ db.title = "New Conversation" /\ db.messages = <<>>
    /\ dispatched.s1 = 1

\* C40: the manager of a request is its own: when the request's scope has
\* ended, after a returned or a raised deliberation or a refusal, none of
\* its clients' sessions is open; the end of one request's scope leaves the
\* sessions of the concurrently running request's manager as they are, and
\* nothing the other request does touches this request's manager.
C40_Step ==
    /\ (entry = "send_message" /\ pc' = "RESPONDED") =>
          \A p \in KnownProviders : sessions'[p] # "open" /\ built'.live[p] = 0
    /\ (entry = "send_message" /\ pc = "TEARDOWN" /\ pc' = "RESPONDED") => peer' = peer
    /\ peer' # peer =>
          /\ sessions' = sessions /\ clients' = clients /\ built' = built
          /\ pc' = pc /\ calls' = calls
    /\ peer'.st = "ended" =>
          \A p \in KnownProviders : peer'.manager.sessions[p] # "open"
    /\ (sessions' # sessions \/ clients' # clients) => peer' = peer

C40_ManagerPerRequest == [][C40_Step]_vars

\* This request's scope has ended after a raised deliberation and its
\* session is closed, while the other request still holds an open session of
\* its own manager.
C40_Witness ==
    /\ entry = "send_message" /\ pc = "RESPONDED" /\ db.status = 502
    /\ sessions["openrouter"] = "closed"
    /\ peer.st = "running" /\ peer.manager.sessions["openrouter"] = "open"

\* ------------------------------------------------- success inside the loop
\* The contents an upstream answer may carry.
Contents == Stage1Menu \cup Stage2Menu \cup {<<"verdict">>}

\* In this step the POST of slot i's current attempt succeeded: the call
\* returned without a new error and not with its fallback string.
Succeeded(i) ==
    /\ calls[i].st = "posting" /\ calls'[i].st = "done"
    /\ calls'[i].last_error = calls[i].last_error
    /\ calls'[i].result.tag \in {"str", "none"}
    /\ calls'[i].result # FallbackOf(calls[i])
    /\ calls[i].last_error \in RetryableErrors \cup {<<"unknown error">>}

\* C37: when attempt k of chat succeeds the call returns exactly the content
\* of that attempt's answer, at once: at every attempt whose POST resolves,
\* of a client called directly, of the manager's and of Stage 1's, a 200
\* answer with content c makes chat return c, with the attempt number as it
\* is and nothing slept; in particular after transient
\* failures on attempts 1..k-1 the result is the content and not the
\* fallback string; and a call that has returned makes no further attempt
\* and sleeps no more.
C37_Step ==
    /\ (SameGather /\ entry \in {"chat", "manager", "generate_opinions"}) =>
          \A i \in 1..Len(calls) :
             (calls[i].st = "posting" /\ calls'[i] # calls[i]) =>
                \A c \in Menu(entry, pc) :
                   LET r == ChatAttempt(calls[i], OkOutcome(c), 0)
                   IN /\ r.st = "done" /\ r.result = StrResult(c)
                      /\ r.result # FallbackOf(calls[i])
                      /\ r.attempt = calls[i].attempt
                      /\ r.sleep_time = 0
    /\ SameGather =>
          \A i \in 1..Len(calls) :
             /\ Succeeded(i) =>
                   /\ calls'[i].attempt = calls[i].attempt
                   /\ calls'[i].sleep_time = 0
                   /\ calls'[i].result.tag = "str" => calls'[i].result.text \in Contents
             /\ calls[i].st = "done" => calls'[i] = calls[i]
    /\ (InGather /\ pc' # pc /\ Len(calls) = 1 /\ AllDone(calls)) =>
          raw_results'[1] = calls[1].result

C37_SuccessReturnsContent == [][C37_Step]_vars

\* chat has returned the genuine answer of its second attempt, the first
\* having met a connection error.
C37_Witness ==
    /\ entry = "chat" /\ pc = "DONE"
    /\ calls[1].attempt = 2 /\ calls[1].last_error = <<"conn">>
    /\ raw_results = <<StrResult(<<"answer">>)>>

\* HTTP errors whose status is outside 400..499.
TransientStatusErrors == {<<"HTTP", 500>>, <<"HTTP", 200>>}

\* C38: an HTTP error whose status is outside 400..499, a 5xx for one, does
\* not end the retry loop: when the failed attempt k is below max_retries the
\* call sleeps and the end of that sleep is the POST of attempt k+1; such an
\* error ends the call only at k = max_retries.
C38_Step ==
    SameGather =>
        \A i \in 1..Len(calls) :
            /\ (calls[i].st = "posting" /\ calls'[i] # calls[i]
                  /\ calls'[i].last_error \in TransientStatusErrors
                  /\ calls'[i].last_error # calls[i].last_error)
                   => FailedWith(i, TransientStatusErrors)
            /\ (FailedWith(i, TransientStatusErrors) /\ calls[i].attempt < calls[i].max_retries)
                   => /\ calls'[i].st = "sleeping" /\ calls'[i].attempt = calls[i].attempt
                      /\ calls'[i].sleep_time >= MinSleep
            /\ (FailedWith(i, TransientStatusErrors) /\ calls'[i].st = "done")
                   => calls[i].attempt = calls[i].max_retries
            /\ (Woke(i) /\ calls[i].last_error \in TransientStatusErrors)
                   => /\ calls'[i].st = "posting"
                      /\ calls'[i].attempt = calls[i].attempt + 1

C38_ServerErrorRetried == [][C38_Step]_vars

\* A call whose first attempt met HTTP 500 and whose second attempt is being
\* posted.
C38_Witness ==
    /\ entry = "chat" /\ calls[1].st = "posting"
    /\ calls[1].attempt = 2 /\ calls[1].last_error = <<"HTTP", 500>>

\* ------------------------------------------------------------ review scores
ScoreKeys == {"accuracy", "insight", "logic"}

\* The JSON document gives some detailed score a number outside 0..10.
ScoreOutOfRange(doc) ==
    /\ doc.t = "obj" /\ "detailed_scores" \in DOMAIN doc.f
    /\ doc.f["detailed_scores"].t = "arr"
    /\ \E i \in 1..Len(doc.f["detailed_scores"].items) :
          LET item == doc.f["detailed_scores"].items[i]
          IN /\ item.t = "obj"
             /\ \E key \in ScoreKeys \cap DOMAIN item.f :
                   /\ item.f[key].t = "num"
                   /\ item.f[key].n \notin 0..10

\* The reviewer's output carries such a document.
OutputOutOfRange(result) ==
    /\ result.tag = "str"
    /\ \E k \in 1..Len(result.text) :
          result.text[k] \in JsonDocs /\ ScoreOutOfRange(JsonDoc(result.text[k]))

\* C36: a Review with succeeded = true holds only DetailedScores whose
\* accuracy, insight and logic are integers in 0..10; a Review with
\* succeeded = false has no rankings and no detailed scores; and a reviewer
\* whose output gives a score outside 0..10 gets such a failed Review.
C36_ScoresInRange ==
    /\ \A k \in 1..Len(reviews) :
          /\ reviews[k].succeeded =>
                \A i \in 1..Len(reviews[k].detailed_scores) :
                   \A key \in ScoreKeys :
                      reviews[k].detailed_scores[i][key] \in 0..10
          /\ ~reviews[k].succeeded =>
                reviews[k].rankings = <<>> /\ reviews[k].detailed_scores = <<>>
    /\ (entry = "conduct_reviews" /\ pc = "DONE") =>
          \A k \in 1..Len(raw_results) :
             OutputOutOfRange(raw_results[k]) =>
                /\ Len(reviews) = Len(raw_results)
                /\ ~reviews[k].succeeded
                /\ reviews[k].rankings = <<>> /\ reviews[k].detailed_scores = <<>>

\* The first reviewer scored 11 for accuracy and is failed; the second's
\* valid review is kept with its one DetailedScore.
C36_Witness ==
    /\ entry = "conduct_reviews" /\ pc = "DONE" /\ Len(reviews) = 2
    /\ raw_results[1] = StrResult(<<"J:range">>)
    /\ ~reviews[1].succeeded /\ reviews[1].detailed_scores = <<>>
    /\ reviews[2].succeeded /\ Len(reviews[2].detailed_scores) = 1

\* -------------------------------------------------------------- termination
\* C35: every network attempt resolving and every backoff sleep ending,
\* every chat call eventually returns and every run_deliberation eventually
\* reaches DONE with a trace, for every council and every combination of
\* failures.
C35_Original ==
    /\ (entry = "chat" /\ InGather) ~> (pc = "DONE" /\ AllDone(calls))
    /\ (entry = "run_deliberation") ~> (pc = "DONE" /\ trace # NoTrace)

====
